---------------------------- MODULE Spec2Model ----------------------------
(***************************************************************************)
(* Verification model of YTQuickConverter.                                 *)
(*                                                                         *)
(*   SpecChain   YouTubeDownloader._download_with_fallback_strategies and  *)
(*               the strategy methods it names (src/core/downloader.py)    *)
(*   SpecQueue   MainWindow's download queue and its DownloadWorker        *)
(*               threads (src/ui/main_window.py)                           *)
(*   SpecWorker  DownloadWorker.run, its progress hook and the audio       *)
(*               fixer (src/core/converter.py)                             *)
(*                                                                         *)
(* Each specification moves its own group of variables and leaves the      *)
(* other groups at their initial values.                                   *)
(***************************************************************************)
EXTENDS Integers, Sequences, FiniteSets, TLC

VARIABLES
    \* --- fallback chain (downloader.py) ---
    ch_pc,        \* "ready" | "returned" | "raised"
    ch_env,       \* what the external collaborators do during this call
    ch_fs,        \* files present in the output directory
    ch_invoked,   \* strategies whose body was entered, in call order
    ch_result,    \* path returned to the caller, or NoPath
    ch_exc,       \* exception raised to the caller, or NoExc
    \* --- download queue (main_window.py) ---
    q_app,        \* "running" | "aborted" (the process ended in a slot)
    q_video_info, \* hasattr(self, 'video_info')
    q_stored,     \* item id -> status held in the item's UserRole data
    q_shown,      \* item id -> status part of the item's displayed text
    q_list,       \* item ids in self.download_queue, in row order
    q_workers,    \* DownloadWorker objects created so far, in creation order
    q_conv,       \* self.conversion_workers (indices into q_workers)
    q_sweeps,     \* calls of clean_output_folder so far, in call order
    q_events,     \* queued signal deliveries awaiting the GUI thread
    q_bar,        \* self.progress_bar.isVisible()
    q_log,        \* kind of the last line appended to the journal
    \* --- one DownloadWorker (converter.py) ---
    w_pc,         \* position of the worker thread in run()
    w_format,     \* self.format_type
    w_cancelled,  \* self.is_cancelled
    w_tick,       \* progress event whose hook call is under way, or NoTick
    w_ticks,      \* progress ticks begun so far
    w_temp_file,  \* self.temp_file
    w_fs,         \* files present in the output directory
    w_env,        \* what ffprobe, ffmpeg and rename did in the fixer
    w_transcodes, \* invocations of the transcoding collaborator
    w_err,        \* the exception run() caught, or "none"
    w_out         \* signals emitted so far, in order

chainVars == <<ch_pc, ch_env, ch_fs, ch_invoked, ch_result, ch_exc>>

queueVars == <<q_app, q_video_info, q_stored, q_shown, q_list, q_workers,
               q_conv, q_events, q_bar, q_log, q_sweeps>>

workerVars == <<w_pc, w_format, w_cancelled, w_tick, w_ticks, w_temp_file,
                w_fs, w_env, w_transcodes, w_err, w_out>>

\* The scoring functions: kind of descriptor, the pair of descriptors scored
\* and their scores.
VARIABLES s_pc, s_kind, s_args, s_scores

scoreVars == <<s_pc, s_kind, s_args, s_scores>>

\* Format analysis and strategy selection: the collaborator's answer, the
\* requested tier, the analysis, the selected strategy and the strategy
\* functions run so far.
VARIABLES c_pc, c_extract, c_formats, c_quality, c_analysis, c_strategy, c_ran

catalogVars == <<c_pc, c_extract, c_formats, c_quality, c_analysis, c_strategy, c_ran>>

\* sanitize_filename: which of the two functions, the input and the outputs
\* of its successive applications.
VARIABLES n_impl, n_in, n_out

nameVars == <<n_impl, n_in, n_out>>

\* download_video_with_quality_optimized: position of the call, how the
\* selected strategy went and whether the fallback chain was called.
VARIABLES o_pc, o_selected, o_chain

orchestrationVars == <<o_pc, o_selected, o_chain>>

\* load_settings: position of the call, the home directory and the settings file it finds and
\* what it returns.
VARIABLES st_pc, st_home, st_file, st_result

settingsVars == <<st_pc, st_home, st_file, st_result>>

\* The name a download function returns: the function, the path the
\* retrieval reported and the path returned.
VARIABLES x_pc, x_fn, x_reported, x_returned

extensionVars == <<x_pc, x_fn, x_reported, x_returned>>

\* _ensure_aac_audio called on its own: position of the call, self.temp_file,
\* what the collaborators do and the files on disk.
VARIABLES f_pc, f_temp_file, f_env, f_fs

fixerVars == <<f_pc, f_temp_file, f_env, f_fs>>

\* download_with_selected_quality and download_with_format_id: position of
\* the call, the method, what the collaborators do, the files on disk and
\* the result.
VARIABLES d_pc, d_method, d_env, d_fs, d_result

directVars == <<d_pc, d_method, d_env, d_fs, d_result>>

\* PlaylistDownloader.run: position in run(), what extract_info returned,
\* the index of the current entry, self.is_cancelled and the signals
\* emitted so far.
VARIABLES p_pc, p_info, p_i, p_cancelled, p_out

playlistVars == <<p_pc, p_info, p_i, p_cancelled, p_out>>

\* State of the helper computations on settings and file names, and of the
\* calls modelled on their own.
utilVars == <<settingsVars, extensionVars, fixerVars, directVars, playlistVars>>

\* State of the pure computations, which no queue, worker or chain step touches.
pureVars == <<scoreVars, catalogVars, nameVars, orchestrationVars, utilVars>>

vars == <<chainVars, queueVars, workerVars, pureVars>>

-----------------------------------------------------------------------------
(***************************************************************************)
(* Python call semantics needed by the chain: attribute lookup on the      *)
(* instance and the number of positional parameters of a bound method.     *)
(***************************************************************************)

NoPath == "None"
NoExc == [type |-> "none", msg |-> ""]

\* Methods defined by class YouTubeDownloader, with the number of
\* positional parameters each takes after self (defaults excluded where the
\* chain never relies on them).
YouTubeDownloaderMethods ==
    [ download_video_with_quality_optimized |-> 3,
      analyze_available_formats            |-> 1,
      choose_best_strategy                 |-> 2,
      download_premium_quality             |-> 3,
      download_high_quality_adaptive       |-> 3,
      download_standard_quality            |-> 3,
      download_adaptive_with_aac           |-> 3,
      download_with_conversion             |-> 3,
      download_with_format                 |-> 4,
      download_with_fallback_strategies    |-> 3,
      download_h264_high_quality           |-> 3,
      download_adaptive_quality            |-> 3,
      download_and_convert_hq              |-> 2,
      convert_audio_to_aac_hq              |-> 2 ]

HasAttr(attr) == attr \in DOMAIN YouTubeDownloaderMethods

\* The strategies list built at the top of _download_with_fallback_strategies.
FallbackStrategies ==
    << [name |-> "Qualité maximale avec AAC", attr |-> "download_max_quality_with_aac"],
       [name |-> "H.264 haute qualité",       attr |-> "download_h264_high_quality"],
       [name |-> "Qualité adaptative",        attr |-> "download_adaptive_quality"],
       [name |-> "Fallback avec conversion",  attr |-> "download_and_convert_hq"] >>

AllFailedMsg == "Toutes les stratégies ont échoué"

\* Files of one media item in the output directory.
FinalFile == "title.mp4"
TempFile == "title_temp.mp4"

\* Outcomes of one retrieval (ydl.extract_info(url, download=True)):
\* it raises, it reports a path but wrote nothing, or it wrote the file.
DownloadOutcomes == {"raise", "nofile", "file"}
\* Outcomes of the transcoding subprocess: exit 0, non-zero exit
\* (CalledProcessError), or the binary cannot be started (FileNotFoundError).
TranscodeOutcomes == {"ok", "nonzero", "notfound"}
MetaOutcomes == {"ok", "raise"}

ChainEnvs ==
    [ dl : [1..4 -> DownloadOutcomes], meta3 : MetaOutcomes, transcode : TranscodeOutcomes ]

\* Result of running a callable: kind "return" with a path, or kind "raise".
Ret(path, fs) == [kind |-> "return", path |-> path, exc |-> NoExc, fs |-> fs, entered |-> TRUE]
Raise(type, msg, fs, entered) ==
    [kind |-> "raise", path |-> NoPath, exc |-> [type |-> type, msg |-> msg], fs |-> fs, entered |-> entered]

\* _convert_audio_to_aac_hq: TRUE on exit 0, FALSE on CalledProcessError;
\* any other exception of subprocess.run propagates.
convert_audio_to_aac_hq(e, fs, input, output) ==
    IF e.transcode = "notfound"
    THEN [kind |-> "raise", ok |-> FALSE, fs |-> fs]
    ELSE IF e.transcode = "ok" /\ input \in fs
         THEN [kind |-> "return", ok |-> TRUE, fs |-> fs \cup {output}]
         ELSE [kind |-> "return", ok |-> FALSE, fs |-> fs]

\* _download_h264_high_quality: one retrieval, extension normalised to .mp4.
download_h264_high_quality(e, fs) ==
    CASE e.dl[2] = "raise"  -> Raise("DownloadError", "download", fs, TRUE)
      [] e.dl[2] = "nofile" -> Ret(FinalFile, fs)
      [] e.dl[2] = "file"   -> Ret(FinalFile, fs \cup {FinalFile})

\* _download_adaptive_quality: a metadata probe, then one retrieval.
download_adaptive_quality(e, fs) ==
    IF e.meta3 = "raise" THEN Raise("DownloadError", "extract_info", fs, TRUE)
    ELSE CASE e.dl[3] = "raise"  -> Raise("DownloadError", "download", fs, TRUE)
           [] e.dl[3] = "nofile" -> Ret(FinalFile, fs)
           [] e.dl[3] = "file"   -> Ret(FinalFile, fs \cup {FinalFile})

\* _download_and_convert_hq: retrieval into the temp name, transcode, and a
\* rename of the temp file when the transcode did not produce the final file.
download_and_convert_hq(e, fs) ==
    IF e.dl[4] = "raise" THEN Raise("DownloadError", "download", fs, TRUE)
    ELSE LET fs1 == IF e.dl[4] = "file" THEN fs \cup {TempFile} ELSE fs
             c   == convert_audio_to_aac_hq(e, fs1, TempFile, FinalFile)
         IN  IF c.kind = "raise"
             THEN Raise("FileNotFoundError", "ffmpeg", c.fs, TRUE)
             ELSE IF c.ok /\ FinalFile \in c.fs
                  THEN Ret(FinalFile, c.fs \ {TempFile})
                  ELSE IF TempFile \in c.fs
                       THEN Ret(FinalFile, (c.fs \ {TempFile}) \cup {FinalFile})
                       ELSE Ret(FinalFile, c.fs)

\* Body of the bound method a strategy entry refers to.
StrategyBody(attr, e, fs) ==
    CASE attr = "download_h264_high_quality" -> download_h264_high_quality(e, fs)
      [] attr = "download_adaptive_quality"  -> download_adaptive_quality(e, fs)
      [] attr = "download_and_convert_hq"    -> download_and_convert_hq(e, fs)
      [] OTHER -> Raise("NotImplementedError", attr, fs, FALSE)

\* strategy(url, output_path, quality): a call with three positional
\* arguments; a method taking another number raises TypeError before its
\* body is entered.
ChainCallArgs == 3

CallStrategy(attr, e, fs) ==
    IF YouTubeDownloaderMethods[attr] # ChainCallArgs
    THEN Raise("TypeError", attr, fs, FALSE)
    ELSE StrategyBody(attr, e, fs)

\* The for loop of _download_with_fallback_strategies from entry i on.
RECURSIVE FallbackLoop(_, _, _, _)
FallbackLoop(i, e, fs, inv) ==
    IF i > Len(FallbackStrategies)
    THEN [kind |-> "raise", path |-> NoPath,
          exc |-> [type |-> "Exception", msg |-> AllFailedMsg], fs |-> fs, invoked |-> inv]
    ELSE LET r    == CallStrategy(FallbackStrategies[i].attr, e, fs)
             inv1 == IF r.entered THEN Append(inv, i) ELSE inv
         IN  IF r.kind = "return" /\ r.path # NoPath /\ r.path \in r.fs
             THEN [kind |-> "return", path |-> r.path, exc |-> NoExc, fs |-> r.fs, invoked |-> inv1]
             ELSE FallbackLoop(i + 1, e, r.fs, inv1)

\* _download_with_fallback_strategies: the strategies list is built first
\* (outside the try); looking up an attribute the class does not define
\* raises AttributeError to the caller.
download_with_fallback_strategies(e, fs) ==
    IF \E i \in 1..Len(FallbackStrategies) : ~HasAttr(FallbackStrategies[i].attr)
    THEN LET i == CHOOSE j \in 1..Len(FallbackStrategies) :
                     /\ ~HasAttr(FallbackStrategies[j].attr)
                     /\ \A k \in 1..(j-1) : HasAttr(FallbackStrategies[k].attr)
         IN  [kind |-> "raise", path |-> NoPath,
              exc |-> [type |-> "AttributeError", msg |-> FallbackStrategies[i].attr],
              fs |-> fs, invoked |-> <<>>]
    ELSE FallbackLoop(1, e, fs, <<>>)

\* Values the chain variables keep while another specification runs.
ChainParked ==
    /\ ch_pc = "parked"
    /\ ch_env = [dl |-> [i \in 1..4 |-> "raise"], meta3 |-> "raise", transcode |-> "nonzero"]
    /\ ch_fs = {}
    /\ ch_invoked = <<>>
    /\ ch_result = NoPath
    /\ ch_exc = NoExc

ChainInit ==
    /\ ch_pc = "ready"
    /\ ch_env \in ChainEnvs
    /\ ch_fs = {}
    /\ ch_invoked = <<>>
    /\ ch_result = NoPath
    /\ ch_exc = NoExc

\* One call of _download_with_fallback_strategies(url, output_path, quality).
CallFallbackChain ==
    /\ ch_pc = "ready"
    /\ LET r == download_with_fallback_strategies(ch_env, ch_fs)
       IN  /\ ch_pc' = IF r.kind = "return" THEN "returned" ELSE "raised"
           /\ ch_fs' = r.fs
           /\ ch_invoked' = r.invoked
           /\ ch_result' = r.path
           /\ ch_exc' = r.exc
    /\ UNCHANGED ch_env
    /\ UNCHANGED <<queueVars, workerVars, pureVars>>

ChainNext == CallFallbackChain

-----------------------------------------------------------------------------
(***************************************************************************)
(* MainWindow's download queue (src/ui/main_window.py).                    *)
(*                                                                         *)
(* The GUI thread runs one handler at a time; a handler is one action.     *)
(* A DownloadWorker runs in its own thread; the signals it emits are       *)
(* queued to the GUI thread and delivered in emission order.               *)
(*                                                                         *)
(* An item's UserRole data is a dict with str keys: item.data() hands out  *)
(* a copy of it, and only item.setData(UserRole, data) changes what the    *)
(* item holds.                                                             *)
(***************************************************************************)

MaxJobs == 2

Pending == "En attente"
InProgress == "Téléchargement"
Completed == "Terminé"
Failed == "Erreur"

Items == 1..MaxJobs

\* The GUI-side state a handler reads and writes, as one record.
QState ==
    [ stored |-> q_stored, shown |-> q_shown, list |-> q_list,
      workers |-> q_workers, conv |-> q_conv, bar |-> q_bar, log |-> q_log,
      sweeps |-> q_sweeps ]

QAssign(t) ==
    /\ q_stored' = t.stored
    /\ q_shown' = t.shown
    /\ q_list' = t.list
    /\ q_workers' = t.workers
    /\ q_conv' = t.conv
    /\ q_bar' = t.bar
    /\ q_log' = t.log
    /\ q_sweeps' = t.sweeps

ListItems(s) == {s.list[i] : i \in 1..Len(s.list)}

\* QThread.isRunning(): true from start() until run() has returned.
isRunning(s, w) == s.workers[w].phase # "stopped"

\* any(w.isRunning() for w in self.conversion_workers)
AnyWorkerRunning_NoGuard(s) == FALSE

AnyWorkerRunning(s) == \E w \in s.conv : isRunning(s, w)

\* any(item.data(UserRole)['status'] == 'Téléchargement' for the rows)
AnyRowInProgress(s) == \E i \in ListItems(s) : s.stored[i] = InProgress

\* clean_output_folder(output_path): the stray files in the output directory
\* are removed, whatever thread may be writing there.  The call is recorded
\* with the number of worker threads alive when it is made and the number of
\* workers created before it.
clean_output_folder(s, item) ==
    [ s EXCEPT !.sweeps = Append(s.sweeps,
         [ item |-> item,
           alive |-> Cardinality({w \in 1..Len(s.workers) : s.workers[w].phase # "stopped"}),
           created |-> Len(s.workers) ]) ]

\* start_download(item): the status written into the copy returned by
\* item.data() reaches the item's text only; the output directory is swept;
\* a worker is created, appended to conversion_workers and started.
start_download(s, item) ==
    LET s1 == clean_output_folder([s EXCEPT !.shown[item] = InProgress, !.bar = TRUE], item)
    IN  [ s1 EXCEPT !.workers = Append(s1.workers, [item |-> item, phase |-> "run", ok |-> "none"]),
                    !.conv = s1.conv \cup {Len(s1.workers) + 1} ]

\* start_next_download: nothing while a listed worker runs; otherwise the
\* first row whose stored status is 'En attente' is started.
start_next_download(s) ==
    IF AnyWorkerRunning(s)
    THEN [s EXCEPT !.log = "busy"]
    ELSE IF \E k \in 1..Len(s.list) : s.stored[s.list[k]] = Pending
         THEN LET k == CHOOSE j \in 1..Len(s.list) :
                          /\ s.stored[s.list[j]] = Pending
                          /\ \A h \in 1..(j-1) : s.stored[s.list[h]] # Pending
              IN  start_download([s EXCEPT !.log = "launch"], s.list[k])
         ELSE s

cleanup_finished_workers_DropsAll(s) ==
    [s EXCEPT !.conv = {}]

\* cleanup_finished_workers
cleanup_finished_workers(s) ==
    [s EXCEPT !.conv = {w \in s.conv : isRunning(s, w)}]

\* add_to_queue, past the video_info guard: a new row with status
\* 'En attente', then start_next_download unless a row is stored as
\* 'Téléchargement'.
add_to_queue(s, item) ==
    LET s1 == [s EXCEPT !.stored[item] = Pending, !.shown[item] = "queued",
                        !.list = Append(s.list, item), !.log = "added"]
    IN  IF ~AnyRowInProgress(s1) THEN start_next_download(s1) ELSE s1

\* on_download_finished(item), for an item that still exists.
on_download_finished(s, item) ==
    LET s1 == [s EXCEPT !.stored[item] = Completed, !.shown[item] = Completed,
                        !.log = "finished"]
        s2 == start_next_download(cleanup_finished_workers(s1))
    IN  IF ~AnyRowInProgress(s2) THEN [s2 EXCEPT !.bar = FALSE] ELSE s2

\* What an exception leaving a slot does to the application: PyQt either
\* ends the process (qFatal) or reports the exception and returns to the
\* event loop, depending on the installed exception hook.
SlotExceptionOutcomes == {"abort", "continue"}

QueueInit ==
    /\ q_app = "running"
    /\ q_video_info = FALSE
    /\ q_stored = [i \in Items |-> "none"]
    /\ q_shown = [i \in Items |-> "none"]
    /\ q_list = <<>>
    /\ q_workers = <<>>
    /\ q_conv = {}
    /\ q_events = <<>>
    /\ q_bar = FALSE
    /\ q_log = "none"
    /\ q_sweeps = <<>>

\* ---- GUI thread: user-driven handlers ----

\* on_info_fetched: self.video_info = info
OnInfoFetched ==
    /\ q_app = "running"
    /\ ~q_video_info
    /\ q_video_info' = TRUE
    /\ UNCHANGED <<q_app, q_stored, q_shown, q_list, q_workers, q_conv, q_events, q_bar, q_log, q_sweeps>>
    /\ UNCHANGED <<chainVars, workerVars, pureVars>>

\* reset_video_info: delattr(self, 'video_info')
ResetVideoInfo ==
    /\ q_app = "running"
    /\ q_video_info
    /\ q_video_info' = FALSE
    /\ UNCHANGED <<q_app, q_stored, q_shown, q_list, q_workers, q_conv, q_events, q_bar, q_log, q_sweeps>>
    /\ UNCHANGED <<chainVars, workerVars, pureVars>>

\* The download button: add_to_queue.
AddToQueue ==
    /\ q_app = "running"
    /\ q_video_info
    /\ \E item \in Items :
          /\ q_stored[item] = "none"
          /\ \A j \in Items : j < item => q_stored[j] # "none"
          /\ QAssign(add_to_queue(QState, item))
    /\ UNCHANGED <<q_app, q_video_info, q_events>>
    /\ UNCHANGED <<chainVars, workerVars, pureVars>>

\* The clear button: clear_queue deletes every row.
ClearQueue ==
    /\ q_app = "running"
    /\ q_list # <<>>
    /\ q_list' = <<>>
    /\ q_log' = "cleared"
    /\ UNCHANGED <<q_app, q_video_info, q_stored, q_shown, q_workers, q_conv, q_events, q_bar, q_sweeps>>
    /\ UNCHANGED <<chainVars, workerVars, pureVars>>

\* ---- worker threads (DownloadWorker.run as the queue sees it) ----

SetPhase(w, phase, ok) ==
    q_workers' = [q_workers EXCEPT ![w] = [@ EXCEPT !.phase = phase, !.ok = ok]]

\* run() ends normally: finished(True, ...) is emitted.
WorkerSucceeds ==
    /\ q_app = "running"
    /\ \E w \in 1..Len(q_workers) :
          /\ q_workers[w].phase = "run"
          /\ SetPhase(w, "fin", "ok")
          /\ q_events' = Append(q_events, [sig |-> "finished", w |-> w])
    /\ UNCHANGED <<q_app, q_video_info, q_stored, q_shown, q_list, q_conv, q_bar, q_log, q_sweeps>>
    /\ UNCHANGED <<chainVars, workerVars, pureVars>>

\* run() catches an exception: error_occurred(msg) is emitted ...
WorkerFails ==
    /\ q_app = "running"
    /\ \E w \in 1..Len(q_workers) :
          /\ q_workers[w].phase = "run"
          /\ SetPhase(w, "err", "fail")
          /\ q_events' = Append(q_events, [sig |-> "error_occurred", w |-> w])
    /\ UNCHANGED <<q_app, q_video_info, q_stored, q_shown, q_list, q_conv, q_bar, q_log, q_sweeps>>
    /\ UNCHANGED <<chainVars, workerVars, pureVars>>

\* ... and then finished(False, msg).
WorkerFailsFinished ==
    /\ q_app = "running"
    /\ \E w \in 1..Len(q_workers) :
          /\ q_workers[w].phase = "err"
          /\ SetPhase(w, "fin", "fail")
          /\ q_events' = Append(q_events, [sig |-> "finished", w |-> w])
    /\ UNCHANGED <<q_app, q_video_info, q_stored, q_shown, q_list, q_conv, q_bar, q_log, q_sweeps>>
    /\ UNCHANGED <<chainVars, workerVars, pureVars>>

\* run() has returned: the thread is no longer running.
WorkerStops ==
    /\ q_app = "running"
    /\ \E w \in 1..Len(q_workers) :
          /\ q_workers[w].phase = "fin"
          /\ SetPhase(w, "stopped", q_workers[w].ok)
    /\ UNCHANGED <<q_app, q_video_info, q_stored, q_shown, q_list, q_conv, q_events, q_bar, q_log, q_sweeps>>
    /\ UNCHANGED <<chainVars, workerVars, pureVars>>

\* ---- GUI thread: delivery of the queued worker signals ----

\* An exception leaves the slot: the statements before it have run.
SlotRaises(s) ==
    \E o \in SlotExceptionOutcomes :
        IF o = "abort"
        THEN /\ q_app' = "aborted"
             /\ QAssign([s EXCEPT !.workers =
                           [w \in 1..Len(s.workers) |-> [s.workers[w] EXCEPT !.phase = "stopped"]]])
             /\ q_events' = <<>>
        ELSE /\ q_app' = q_app
             /\ QAssign(s)
             /\ q_events' = Tail(q_events)

\* worker.finished -> lambda: self.on_download_finished(item).  The journal
\* line is written first; item.data() raises when the row was deleted.
DeliverFinished ==
    /\ q_app = "running"
    /\ q_events # <<>>
    /\ Head(q_events).sig = "finished"
    /\ LET item == q_workers[Head(q_events).w].item
           s0   == [QState EXCEPT !.log = "finished_called"]
       IN  IF item \in ListItems(QState)
           THEN /\ QAssign(on_download_finished(s0, item))
                /\ q_events' = Tail(q_events)
                /\ q_app' = q_app
           ELSE SlotRaises(s0)
    /\ UNCHANGED q_video_info
    /\ UNCHANGED <<chainVars, workerVars, pureVars>>

\* worker.error_occurred -> lambda error: self.on_download_error(item, error).
\* data['status'] = 'Erreur' changes the copy; item.setData(Qt.ItemDataRole,
\* data) passes the enum class as the role and raises TypeError, so nothing
\* after it runs.
DeliverError ==
    /\ q_app = "running"
    /\ q_events # <<>>
    /\ Head(q_events).sig = "error_occurred"
    /\ SlotRaises(QState)
    /\ UNCHANGED q_video_info
    /\ UNCHANGED <<chainVars, workerVars, pureVars>>

QueueNext ==
    \/ OnInfoFetched
    \/ ResetVideoInfo
    \/ AddToQueue
    \/ ClearQueue
    \/ WorkerSucceeds
    \/ WorkerFails
    \/ WorkerFailsFinished
    \/ WorkerStops
    \/ DeliverFinished
    \/ DeliverError

-----------------------------------------------------------------------------
(***************************************************************************)
(* DownloadWorker (src/core/converter.py): run(), the progress hook that   *)
(* the retrieval collaborator calls on every tick, cancel(), and the audio *)
(* fixer _ensure_aac_audio.  run() executes in the worker thread; cancel() *)
(* is called from another thread and can fall between any two steps.       *)
(***************************************************************************)

MaxTicks == 2

NoTick == [status |-> "none", downloaded |-> 0, total |-> 0 - 1, pstr |-> 0 - 1, filename |-> "None"]
OriginalFile == "title_original.mp4"
\* A component file of a merged download, as named in a 'finished' event.
PartFile == "title_temp.f140.m4a"
\* A name without '_temp.mp4', which the replacement leaves as it is.
UnmarkedFile == "title.webm"

\* Progress events the retrieval collaborator reports to the hook.  A key
\* of the event that is missing, or present without a value, is one of the
\* marks below; pstr is the number in '_percent_str'.
KeyAbsent == 0 - 1
ValueNone == 0 - 2
NotANumber == 0 - 3

TickEvents ==
    [status : {"downloading"}, downloaded : {0, 1, 2}, total : {1, 2, ValueNone},
     pstr : {KeyAbsent}, filename : {NoPath}]
    \cup
    [status : {"downloading"}, downloaded : {0}, total : {KeyAbsent},
     pstr : {0, 50, 100, NotANumber, KeyAbsent}, filename : {NoPath}]
    \cup
    [status : {"finished"}, downloaded : {0}, total : {KeyAbsent},
     pstr : {KeyAbsent}, filename : {TempFile, PartFile}]
    \cup
    [status : {"error"}, downloaded : {0}, total : {KeyAbsent},
     pstr : {KeyAbsent}, filename : {NoPath}]

\* Emitted signals: the signal, the code that emitted it, its text argument
\* and its integer argument (NoPct when it has none).
NoPct == 0 - 1
Sig(sig, by, text) == [sig |-> sig, by |-> by, text |-> text, pct |-> NoPct, msg |-> ""]
Progress(by, pct) == [sig |-> "progress", by |-> by, text |-> "", pct |-> pct, msg |-> ""]

\* finished(success, message)
Finished(success, msg) == [Sig("finished", "run", success) EXCEPT !.msg = msg]

\* The except block emitting finished(False, ...) without error_occurred.
failure_signals_NoError(error_msg) == << Finished("False", error_msg) >>

\* self.error_occurred.emit(error_msg); self.finished.emit(False, error_msg)
failure_signals(error_msg) ==
    << Sig("error_occurred", "run", error_msg), Finished("False", error_msg) >>

IsVideo(fmt) == fmt \in {"mp4", "video"}

\* if self.is_cancelled: raise yt_dlp.DownloadError(...), first statement of
\* progress_hook.
HookIgnoresCancel(cancelled) == FALSE

HookObservesCancel(cancelled) == cancelled

\* The hook raises on this event (after the cancellation check): dividing
\* by a 'total_bytes' that has no value.
HookRaises(d) == d.status = "downloading" /\ d.total = ValueNone

\* int(d['downloaded_bytes'] / d['total_bytes'] * 100)
BytesPercent(d) == (d.downloaded * 100) \div d.total

\* What progress_hook emits for event d, past the cancellation check.
HookEmits(d, fmt) ==
    CASE d.status = "downloading" /\ d.total \notin {KeyAbsent, ValueNone} ->
            << Progress("hook", BytesPercent(d)) >>
      [] d.status = "downloading" /\ d.total = KeyAbsent /\ d.pstr \notin {KeyAbsent, NotANumber} ->
            << Progress("hook", d.pstr) >>
      [] d.status = "finished" ->
            << Progress("hook", 100), Sig("status", "hook", "finalisation") >>
      [] OTHER -> << >>

\* self.temp_file after the hook handled event d.
HookTempFile(d, fmt, old) ==
    IF d.status = "finished" /\ IsVideo(fmt) THEN d.filename ELSE old

\* ---- the audio fixer ----

CodecNames == {"aac", "AAC", "aac_low", "aac_he", "aac_he_v2", "opus", "mp3"}
ProbeResults == [ok : {TRUE}, name : CodecNames] \cup [ok : {FALSE}, name : {"none"}]
RenameOutcomes == {"ok", "oserror"}

FixerEnvs ==
    [ probe : ProbeResults, transcode : TranscodeOutcomes,
      rename_final : RenameOutcomes, rename_original : RenameOutcomes ]

NoFixerEnv == [probe |-> [ok |-> FALSE, name |-> "not probed"], transcode |-> "none",
               rename_final |-> "none", rename_original |-> "none"]

\* _get_audio_codec: the probe's output, or 'unknown' on any failure.
get_audio_codec(probe) == IF probe.ok THEN probe.name ELSE "unknown"

\* audio_codec != 'aac'
NeedsConversion_Inverted(codec) == codec = "aac"

NeedsConversion(codec) == codec # "aac"

\* temp_file.replace('_temp.mp4', marker + '.mp4')
ReplaceTempMarker(path, target) == IF path = TempFile THEN target ELSE path

\* Path(src).rename(dst)
Rename(fs, src, dst, outcome) ==
    IF outcome = "ok"
    THEN [kind |-> "return", fs |-> (fs \ {src}) \cup {dst}]
    ELSE [kind |-> "raise", fs |-> fs]
\* _convert_to_aac without the except branch that renames the input.
convert_to_aac_NoFallback(e, fs, input, output) ==
    CASE e.transcode = "ok" -> [kind |-> "return", fs |-> (fs \cup {output}) \ {input}]
      [] OTHER -> [kind |-> "raise", fs |-> fs]

\* _convert_to_aac(input_file, output_file)
convert_to_aac(e, fs, input, output) ==
    CASE e.transcode = "ok" -> [kind |-> "return", fs |-> (fs \cup {output}) \ {input}]
      [] e.transcode = "nonzero" ->
            IF input \in fs THEN Rename(fs, input, output, e.rename_final)
            ELSE [kind |-> "return", fs |-> fs]
      [] OTHER -> [kind |-> "raise", fs |-> fs]

\* _ensure_aac_audio: result kind, files, signals emitted, transcoder calls
\* and whether the probe ran.
ensure_aac_audio(e, fs, temp_file) ==
    IF temp_file = NoPath \/ temp_file \notin fs
    THEN [kind |-> "return", fs |-> fs, out |-> << >>, transcodes |-> 0, probed |-> FALSE]
    ELSE LET codec == get_audio_codec(e.probe)
             final == ReplaceTempMarker(temp_file, FinalFile)
             conv  == NeedsConversion(codec)
             body  == IF conv THEN convert_to_aac(e, fs, temp_file, final)
                      ELSE Rename(fs, temp_file, final, e.rename_final)
             out   == IF conv THEN << Sig("status", "fixer", "conversion") >> ELSE << >>
             n     == IF conv THEN 1 ELSE 0
         IN  IF body.kind = "return"
             THEN [kind |-> "return", fs |-> body.fs, out |-> out, transcodes |-> n, probed |-> TRUE]
             ELSE LET orig == ReplaceTempMarker(temp_file, OriginalFile)
                      r    == IF temp_file \in body.fs
                              THEN Rename(body.fs, temp_file, orig, e.rename_original)
                              ELSE [kind |-> "return", fs |-> body.fs]
                  IN  [kind |-> r.kind, fs |-> r.fs, out |-> out, transcodes |-> n, probed |-> TRUE]

\* ---- run() ----

WorkerInit ==
    /\ w_pc = "start"
    /\ w_format \in {"video", "audio"}
    /\ w_cancelled = FALSE
    /\ w_tick = NoTick
    /\ w_ticks = 0
    /\ w_temp_file = NoPath
    /\ w_fs = {}
    /\ w_env = NoFixerEnv
    /\ w_transcodes = 0
    /\ w_err = "none"
    /\ w_out = << >>

WorkerParked ==
    /\ w_pc = "parked"
    /\ w_format = "video"
    /\ w_cancelled = FALSE
    /\ w_tick = NoTick
    /\ w_ticks = 0
    /\ w_temp_file = NoPath
    /\ w_fs = {}
    /\ w_env = NoFixerEnv
    /\ w_transcodes = 0
    /\ w_err = "none"
    /\ w_out = << >>

\* cancel()
Cancel ==
    /\ w_pc \notin {"parked", "stopped"}
    /\ ~w_cancelled
    /\ w_cancelled' = TRUE
    /\ UNCHANGED <<w_pc, w_format, w_tick, w_ticks, w_temp_file, w_fs, w_env,
                   w_transcodes, w_err, w_out>>
    /\ UNCHANGED <<chainVars, queueVars, pureVars>>

\* run(): the first status and the options.
RunBegin ==
    /\ w_pc = "start"
    /\ w_pc' = "extract"
    /\ w_out' = Append(w_out, Sig("status", "run", "extraction"))
    /\ UNCHANGED <<w_format, w_cancelled, w_tick, w_ticks, w_temp_file, w_fs, w_env,
                   w_transcodes, w_err>>
    /\ UNCHANGED <<chainVars, queueVars, pureVars>>

\* ydl.extract_info(url, download=False) raises.
ExtractFails ==
    /\ w_pc = "extract"
    /\ w_pc' = "except"
    /\ w_err' = "extraction"
    /\ UNCHANGED <<w_format, w_cancelled, w_tick, w_ticks, w_temp_file, w_fs, w_env,
                   w_transcodes, w_out>>
    /\ UNCHANGED <<chainVars, queueVars, pureVars>>

\* extract_info returns: info_extracted is emitted, then run() returns if
\* the job is cancelled, else it announces the download.
ExtractReturns ==
    /\ w_pc = "extract"
    /\ IF w_cancelled
       THEN /\ w_pc' = "stopped"
            /\ w_out' = Append(w_out, Sig("info_extracted", "run", "info"))
       ELSE /\ w_pc' = "download"
            /\ w_out' = w_out \o << Sig("info_extracted", "run", "info"),
                                    Sig("status", "run", "telechargement") >>
    /\ UNCHANGED <<w_format, w_cancelled, w_tick, w_ticks, w_temp_file, w_fs, w_env,
                   w_transcodes, w_err>>
    /\ UNCHANGED <<chainVars, queueVars, pureVars>>

\* The collaborator calls progress_hook(d): the cancellation check.
TickBegin ==
    /\ w_pc = "download"
    /\ w_tick = NoTick
    /\ w_ticks < MaxTicks
    /\ w_ticks' = w_ticks + 1
    /\ \E d \in TickEvents :
          IF HookObservesCancel(w_cancelled)
          THEN /\ w_pc' = "except"
               /\ w_err' = "cancelled"
               /\ w_tick' = NoTick
          ELSE /\ w_tick' = d
               /\ UNCHANGED <<w_pc, w_err>>
    /\ UNCHANGED <<w_format, w_cancelled, w_temp_file, w_fs, w_env, w_transcodes, w_out>>
    /\ UNCHANGED <<chainVars, queueVars, pureVars>>

\* The rest of progress_hook(d): the emissions, temp_file, or an exception
\* that ends the retrieval.
TickBody ==
    /\ w_pc = "download"
    /\ w_tick # NoTick
    /\ w_tick' = NoTick
    /\ IF HookRaises(w_tick)
       THEN /\ w_pc' = "except"
            /\ w_err' = "hook"
            /\ UNCHANGED <<w_out, w_temp_file, w_fs>>
       ELSE /\ w_out' = w_out \o HookEmits(w_tick, w_format)
            /\ w_temp_file' = HookTempFile(w_tick, w_format, w_temp_file)
            /\ w_fs' = IF w_tick.status = "finished" THEN w_fs \cup {w_tick.filename} ELSE w_fs
            /\ UNCHANGED <<w_pc, w_err>>
    /\ UNCHANGED <<w_format, w_cancelled, w_ticks, w_env, w_transcodes>>
    /\ UNCHANGED <<chainVars, queueVars, pureVars>>

\* ydl.download([url]) raises on its own.
DownloadFails ==
    /\ w_pc = "download"
    /\ w_tick = NoTick
    /\ w_pc' = "except"
    /\ w_err' = "download"
    /\ UNCHANGED <<w_format, w_cancelled, w_tick, w_ticks, w_temp_file, w_fs, w_env,
                   w_transcodes, w_out>>
    /\ UNCHANGED <<chainVars, queueVars, pureVars>>

\* ydl.download([url]) returns; component files of a merged download have
\* been replaced by the merged temp file.
DownloadReturns ==
    /\ w_pc = "download"
    /\ w_tick = NoTick
    /\ w_pc' = "postdl"
    /\ w_fs' = IF PartFile \in w_fs THEN (w_fs \ {PartFile}) \cup {TempFile} ELSE w_fs
    /\ UNCHANGED <<w_format, w_cancelled, w_tick, w_ticks, w_temp_file, w_env,
                   w_transcodes, w_err, w_out>>
    /\ UNCHANGED <<chainVars, queueVars, pureVars>>

\* if self.format_type in ['mp4', 'video'] and self.temp_file: the status
\* and _ensure_aac_audio().
PostProcess ==
    /\ w_pc = "postdl"
    /\ IF IsVideo(w_format) /\ w_temp_file # NoPath
       THEN \E e \in FixerEnvs :
               LET r == ensure_aac_audio(e, w_fs, w_temp_file)
               IN  /\ w_env' = IF r.probed THEN e ELSE NoFixerEnv
                   /\ w_fs' = r.fs
                   /\ w_transcodes' = w_transcodes + r.transcodes
                   /\ w_out' = (w_out \o << Sig("status", "run", "verification") >>) \o r.out
                   /\ w_pc' = IF r.kind = "return" THEN "success" ELSE "except"
                   /\ w_err' = IF r.kind = "return" THEN w_err ELSE "fixer"
       ELSE /\ w_pc' = "success"
            /\ UNCHANGED <<w_env, w_fs, w_transcodes, w_out, w_err>>
    /\ UNCHANGED <<w_format, w_cancelled, w_tick, w_ticks, w_temp_file>>
    /\ UNCHANGED <<chainVars, queueVars, pureVars>>

\* self.finished.emit(True, ...)
FinishSuccess ==
    /\ w_pc = "success"
    /\ w_pc' = "stopped"
    /\ w_out' = Append(w_out, Finished("True", "succes"))
    /\ UNCHANGED <<w_format, w_cancelled, w_tick, w_ticks, w_temp_file, w_fs, w_env,
                   w_transcodes, w_err>>
    /\ UNCHANGED <<chainVars, queueVars, pureVars>>

\* except Exception: error_occurred then finished(False, ...)
FinishFailure ==
    /\ w_pc = "except"
    /\ w_pc' = "stopped"
    /\ w_out' = w_out \o failure_signals(w_err)
    /\ UNCHANGED <<w_format, w_cancelled, w_tick, w_ticks, w_temp_file, w_fs, w_env,
                   w_transcodes, w_err>>
    /\ UNCHANGED <<chainVars, queueVars, pureVars>>

WorkerNext ==
    \/ Cancel
    \/ RunBegin
    \/ ExtractFails
    \/ ExtractReturns
    \/ TickBegin
    \/ TickBody
    \/ DownloadFails
    \/ DownloadReturns
    \/ PostProcess
    \/ FinishSuccess
    \/ FinishFailure
-----------------------------------------------------------------------------
(***************************************************************************)
(* Python str values whose characters the code inspects are sequences of   *)
(* one-character strings.                                                  *)
(***************************************************************************)

UpperLetters == << "A", "B", "C", "D", "E", "F", "G", "H", "I", "J", "K", "L", "M",
                   "N", "O", "P", "Q", "R", "S", "T", "U", "V", "W", "X", "Y", "Z" >>
LowerLetters == << "a", "b", "c", "d", "e", "f", "g", "h", "i", "j", "k", "l", "m",
                   "n", "o", "p", "q", "r", "s", "t", "u", "v", "w", "x", "y", "z" >>

char_lower(c) ==
    IF \E i \in 1..Len(UpperLetters) : UpperLetters[i] = c
    THEN LowerLetters[CHOOSE i \in 1..Len(UpperLetters) : UpperLetters[i] = c]
    ELSE c

\* s.lower()
str_lower(s) == [i \in 1..Len(s) |-> char_lower(s[i])]

\* sub in s
str_in(sub, s) ==
    \E i \in 1..(Len(s) - Len(sub) + 1) : SubSeq(s, i, i + Len(sub) - 1) = sub

-----------------------------------------------------------------------------
(***************************************************************************)
(* Format analysis and strategy selection of YouTubeDownloader             *)
(* (src/core/downloader.py).                                               *)
(***************************************************************************)

S_none == << "n", "o", "n", "e" >>
S_avc1 == << "a", "v", "c", "1" >>
S_h264 == << "h", "2", "6", "4" >>
S_aac  == << "a", "a", "c" >>
S_mp4a == << "m", "p", "4", "a" >>
S_opus == << "o", "p", "u", "s" >>

\* 'avc1' in vcodec or 'h264' in vcodec.lower()
IsH264(vcodec) == str_in(S_avc1, vcodec) \/ str_in(S_h264, str_lower(vcodec))

\* 'aac' in acodec.lower()
IsAac(acodec) == str_in(S_aac, str_lower(acodec))
\* _calculate_video_quality_score with a smaller bonus at 60 fps than at 30.
calculate_video_quality_score_FpsDip(height, fps, vcodec) ==
    LET resolution == IF height >= 1080 THEN 100
                      ELSE IF height >= 720 THEN 75
                      ELSE IF height >= 480 THEN 50
                      ELSE 25
        rate       == IF fps >= 60 THEN 5
                      ELSE IF fps >= 30 THEN 10
                      ELSE 0
        h264       == IF IsH264(vcodec) THEN 15 ELSE 0
    IN  resolution + rate + h264

calculate_video_quality_score(height, fps, vcodec) ==
    LET resolution == IF height >= 1080 THEN 100
                      ELSE IF height >= 720 THEN 75
                      ELSE IF height >= 480 THEN 50
                      ELSE 25
        rate       == IF fps >= 60 THEN 20
                      ELSE IF fps >= 30 THEN 10
                      ELSE 0
        h264       == IF IsH264(vcodec) THEN 15 ELSE 0
    IN  resolution + rate + h264
\* _calculate_audio_quality_score giving Opus the bonus of the mp4a family.
calculate_audio_quality_score_OpusBonus(acodec, abr) ==
    LET family  == IF IsAac(acodec) THEN 50
                   ELSE IF str_in(S_mp4a, str_lower(acodec)) THEN 45
                   ELSE IF str_in(S_opus, str_lower(acodec)) THEN 45
                   ELSE 0
        bitrate == IF abr >= 192 THEN 30
                   ELSE IF abr >= 128 THEN 20
                   ELSE IF abr >= 96 THEN 10
                   ELSE 0
    IN  family + bitrate

calculate_audio_quality_score(acodec, abr) ==
    LET family  == IF IsAac(acodec) THEN 50
                   ELSE IF str_in(S_mp4a, str_lower(acodec)) THEN 45
                   ELSE IF str_in(S_opus, str_lower(acodec)) THEN 30
                   ELSE 0
        bitrate == IF abr >= 192 THEN 30
                   ELSE IF abr >= 128 THEN 20
                   ELSE IF abr >= 96 THEN 10
                   ELSE 0
    IN  family + bitrate
\* ---- the two scoring functions applied to pairs of descriptors ----

Heights == {0, 240, 479, 480, 719, 720, 1079, 1080, 2160}
FrameRates == {0, 24, 29, 30, 59, 60, 120}
VideoCodecs == { << "a", "v", "c", "1", ".", "6", "4" >>, << "H", "2", "6", "4" >>,
                 << "A", "V", "C", "1" >>, << "v", "p", "9" >> }
Bitrates == {0, 95, 96, 127, 128, 191, 192, 320}
AudioCodecs == { << "a", "a", "c" >>, << "A", "A", "C" >>, << "m", "p", "4", "a", ".", "4", "0" >>,
                 << "o", "p", "u", "s" >>, << "O", "p", "u", "s" >>, << "m", "p", "3" >> }

VideoArgs == [height : Heights, fps : FrameRates, vcodec : VideoCodecs]
AudioArgs == [acodec : AudioCodecs, abr : Bitrates]

ScoreParked ==
    /\ s_pc = "parked"
    /\ s_kind = "none"
    /\ s_args = << >>
    /\ s_scores = << >>

ScoreInit ==
    /\ s_pc = "ready"
    /\ s_kind \in {"video", "audio"}
    /\ s_args \in IF s_kind = "video" THEN VideoArgs \X VideoArgs ELSE AudioArgs \X AudioArgs
    /\ s_scores = << >>

\* self._calculate_video_quality_score(height, fps, vcodec) on each descriptor
ScoreVideo ==
    /\ s_pc = "ready"
    /\ s_kind = "video"
    /\ s_scores' = [i \in 1..Len(s_args) |->
                       calculate_video_quality_score(s_args[i].height, s_args[i].fps, s_args[i].vcodec)]
    /\ s_pc' = "scored"
    /\ UNCHANGED <<s_kind, s_args>>
    /\ UNCHANGED <<chainVars, queueVars, workerVars, catalogVars, nameVars, orchestrationVars, utilVars>>

\* self._calculate_audio_quality_score(acodec, abr) on each descriptor
ScoreAudio ==
    /\ s_pc = "ready"
    /\ s_kind = "audio"
    /\ s_scores' = [i \in 1..Len(s_args) |->
                       calculate_audio_quality_score(s_args[i].acodec, s_args[i].abr)]
    /\ s_pc' = "scored"
    /\ UNCHANGED <<s_kind, s_args>>
    /\ UNCHANGED <<chainVars, queueVars, workerVars, catalogVars, nameVars, orchestrationVars, utilVars>>

ScoreNext == ScoreVideo \/ ScoreAudio
\* ---- _analyze_available_formats and _choose_best_strategy ----

MaxFormats == 3

\* 'vp9', the codec names of the variants below and an absent codec field
S_vp9 == << "v", "p", "9" >>
S_avc1_64 == << "a", "v", "c", "1", ".", "6", "4" >>
S_H264 == << "H", "2", "6", "4" >>
S_AAC == << "A", "A", "C" >>
S_mp4a_40 == << "m", "p", "4", "a", ".", "4", "0" >>
NoCodec == << >>

Variant(id, vcodec, height, fps, acodec, abr) ==
    [format_id |-> id, vcodec |-> vcodec, height |-> height, fps |-> fps,
     acodec |-> acodec, abr |-> abr]

\* Entries of info['formats'] as the extraction collaborator reports them:
\* video-only, audio-only and muxed variants, a storyboard without codecs, a
\* variant without codec fields and a video variant whose height is None.
RawVariants ==
    { Variant("137", S_avc1_64, 1080, 30, S_none, 0),
      Variant("400", S_avc1_64, 1440, 30, S_none, 0),
      Variant("302", S_vp9, 720, 60, S_none, 0),
      Variant("136", S_H264, 720, 30, S_none, 0),
      Variant("18", S_avc1_64, 360, 30, S_mp4a_40, 96),
      Variant("140", S_none, 0, 0, S_aac, 128),
      Variant("141", S_none, 0, 0, S_AAC, 160),
      Variant("139", S_none, 0, 0, S_aac, 192),
      Variant("251", S_none, 0, 0, S_opus, 160),
      Variant("sb0", S_none, 0, 0, S_none, 0),
      Variant("mhtml", NoCodec, 0, 0, NoCodec, 0),
      Variant("303", S_vp9, ValueNone, 60, S_none, 0) }

RECURSIVE SeqsUpTo(_, _)
SeqsUpTo(S, n) ==
    IF n = 0 THEN { << >> }
    ELSE LET shorter == SeqsUpTo(S, n - 1)
         IN  shorter \cup { Append(s, x) : s \in shorter, x \in S }

Catalogs == SeqsUpTo(RawVariants, MaxFormats)

QualityTiers == {"best", "1080p", "720p", "480p"}

NoneDescriptor == [format_id |-> "None"]
NoAnalysis == [available |-> FALSE]

\* fmt.get('vcodec') and fmt.get('vcodec') != 'none'
IsVideoVariant(fmt) == fmt.vcodec # NoCodec /\ fmt.vcodec # S_none

\* fmt.get('acodec') and fmt.get('acodec') != 'none'
IsAudioVariant(fmt) == fmt.acodec # NoCodec /\ fmt.acodec # S_none

\* comparing None with an int raises TypeError
VariantRaises(fmt) ==
    \/ IsVideoVariant(fmt) /\ (fmt.height = ValueNone \/ fmt.fps = ValueNone)
    \/ IsAudioVariant(fmt) /\ fmt.abr = ValueNone

EmptyAnalysis ==
    [ video_formats |-> << >>, audio_formats |-> << >>,
      best_video |-> NoneDescriptor, best_audio_aac |-> NoneDescriptor,
      max_height |-> 0, has_h264 |-> FALSE, has_aac |-> FALSE ]

Max(a, b) == IF a >= b THEN a ELSE b
\* The video branch recording the height of the last video variant.
AnalyzeVideo_LastHeight(analysis, fmt) ==
    LET video_fmt == [ format_id |-> fmt.format_id, height |-> fmt.height, fps |-> fmt.fps,
                       vcodec |-> fmt.vcodec,
                       quality_score |->
                           calculate_video_quality_score(fmt.height, fmt.fps, fmt.vcodec) ]
    IN  [ analysis EXCEPT
            !.video_formats = Append(@, video_fmt),
            !.max_height = fmt.height,
            !.has_h264 = @ \/ IsH264(fmt.vcodec),
            !.best_video = IF @ = NoneDescriptor \/ video_fmt.quality_score > @.quality_score
                           THEN video_fmt ELSE @ ]

\* The video branch replacing best_video on an equal score as well.
AnalyzeVideo_LastWins(analysis, fmt) ==
    LET video_fmt == [ format_id |-> fmt.format_id, height |-> fmt.height, fps |-> fmt.fps,
                       vcodec |-> fmt.vcodec,
                       quality_score |->
                           calculate_video_quality_score(fmt.height, fmt.fps, fmt.vcodec) ]
    IN  [ analysis EXCEPT
            !.video_formats = Append(@, video_fmt),
            !.max_height = Max(@, fmt.height),
            !.has_h264 = @ \/ IsH264(fmt.vcodec),
            !.best_video = IF @ = NoneDescriptor \/ video_fmt.quality_score >= @.quality_score
                           THEN video_fmt ELSE @ ]

\* the body of "if fmt.get('vcodec') ..." for one variant
AnalyzeVideo(analysis, fmt) ==
    LET video_fmt == [ format_id |-> fmt.format_id, height |-> fmt.height, fps |-> fmt.fps,
                       vcodec |-> fmt.vcodec,
                       quality_score |->
                           calculate_video_quality_score(fmt.height, fmt.fps, fmt.vcodec) ]
    IN  [ analysis EXCEPT
            !.video_formats = Append(@, video_fmt),
            !.max_height = Max(@, fmt.height),
            !.has_h264 = @ \/ IsH264(fmt.vcodec),
            !.best_video = IF @ = NoneDescriptor \/ video_fmt.quality_score > @.quality_score
                           THEN video_fmt ELSE @ ]
\* The audio branch replacing best_audio_aac on an equal score as well.
AnalyzeAudio_LastWins(analysis, fmt) ==
    LET audio_fmt == [ format_id |-> fmt.format_id, acodec |-> fmt.acodec, abr |-> fmt.abr,
                       quality_score |-> calculate_audio_quality_score(fmt.acodec, fmt.abr) ]
        appended  == [analysis EXCEPT !.audio_formats = Append(@, audio_fmt)]
    IN  IF IsAac(fmt.acodec)
        THEN [ appended EXCEPT
                 !.has_aac = TRUE,
                 !.best_audio_aac =
                     IF @ = NoneDescriptor \/ audio_fmt.quality_score >= @.quality_score
                     THEN audio_fmt ELSE @ ]
        ELSE appended

\* the body of "if fmt.get('acodec') ..." for one variant
AnalyzeAudio(analysis, fmt) ==
    LET audio_fmt == [ format_id |-> fmt.format_id, acodec |-> fmt.acodec, abr |-> fmt.abr,
                       quality_score |-> calculate_audio_quality_score(fmt.acodec, fmt.abr) ]
        appended  == [analysis EXCEPT !.audio_formats = Append(@, audio_fmt)]
    IN  IF IsAac(fmt.acodec)
        THEN [ appended EXCEPT
                 !.has_aac = TRUE,
                 !.best_audio_aac =
                     IF @ = NoneDescriptor \/ audio_fmt.quality_score > @.quality_score
                     THEN audio_fmt ELSE @ ]
        ELSE appended
\* The iteration treating the audio test as an alternative of the video test.
AnalyzeVariant_Exclusive(analysis, fmt) ==
    IF IsVideoVariant(fmt) THEN AnalyzeVideo(analysis, fmt)
    ELSE IF IsAudioVariant(fmt) THEN AnalyzeAudio(analysis, fmt) ELSE analysis

\* one iteration of "for fmt in formats"
AnalyzeVariant(analysis, fmt) ==
    LET v == IF IsVideoVariant(fmt) THEN AnalyzeVideo(analysis, fmt) ELSE analysis
    IN  IF IsAudioVariant(fmt) THEN AnalyzeAudio(v, fmt) ELSE v

RECURSIVE AnalyzeLoop(_, _)
AnalyzeLoop(analysis, formats) ==
    IF formats = << >> THEN analysis
    ELSE AnalyzeLoop(AnalyzeVariant(analysis, Head(formats)), Tail(formats))
\* The sort putting x before the elements that score the same.
RECURSIVE InsertByScore_Unstable(_, _)
InsertByScore_Unstable(sorted, x) ==
    IF sorted = << >> THEN << x >>
    ELSE IF Head(sorted).quality_score <= x.quality_score THEN << x >> \o sorted
    ELSE << Head(sorted) >> \o InsertByScore_Unstable(Tail(sorted), x)

\* list.sort(key=lambda x: x['quality_score'], reverse=True): stable, so x
\* goes before the first element that scores strictly less.
RECURSIVE InsertByScore(_, _)
InsertByScore(sorted, x) ==
    IF sorted = << >> THEN << x >>
    ELSE IF Head(sorted).quality_score < x.quality_score THEN << x >> \o sorted
    ELSE << Head(sorted) >> \o InsertByScore(Tail(sorted), x)

RECURSIVE SortByScore(_, _)
SortByScore(sorted, rest) ==
    IF rest = << >> THEN sorted
    ELSE SortByScore(InsertByScore(sorted, Head(rest)), Tail(rest))

\* _analyze_available_formats(url): the analysis, or None when anything raised
analyze_available_formats(extract, formats) ==
    IF extract = "raise" \/ \E i \in 1..Len(formats) : VariantRaises(formats[i])
    THEN NoAnalysis
    ELSE LET analysis == AnalyzeLoop(EmptyAnalysis, formats)
         IN  [ analysis EXCEPT
                 !.video_formats = SortByScore(<< >>, @),
                 !.audio_formats = SortByScore(<< >>, @) ]
NotAvailable == 0 - 4
NoStrategy == [name |-> "None"]

Strategy(name, text, args, function) ==
    [name |-> name, description |-> [text |-> text, args |-> args], function |-> function]
\* _choose_best_strategy returning a strategy that depends on the analysis.
choose_best_strategy_ByAac(available_formats, quality) ==
    [ value |-> IF available_formats.has_aac
                THEN Strategy("Format Adaptatif avec AAC",
                              "Meilleure qualité disponible ({}p) + AAC",
                              << available_formats.max_height >>, "download_adaptive_with_aac")
                ELSE Strategy("Conversion Haute Qualité Forcée",
                              "Conversion AAC optimisée garantie", << >>,
                              "download_and_convert_hq"),
      ran |-> << >> ]

\* _choose_best_strategy as shipped: the returned dict, and the strategy
\* functions called while building it (the bound method is only referenced).
choose_best_strategy(available_formats, quality) ==
    [ value |-> Strategy("Conversion Haute Qualité Forcée",
                         "Conversion AAC optimisée garantie", << >>,
                         "download_and_convert_hq"),
      ran |-> << >> ]
\* The tiered body with its first two rules in the opposite order.
choose_best_strategy_tiered_HighFirst(available_formats, quality) ==
    LET max_height     == available_formats.max_height
        has_h264       == available_formats.has_h264
        has_aac        == available_formats.has_aac
        best_audio_aac == available_formats.best_audio_aac
        premium  == Strategy("Format Premium 1080p H.264+AAC", "1080p H.264 + AAC {}kbps",
                             << IF best_audio_aac # NoneDescriptor
                                THEN best_audio_aac.abr ELSE NotAvailable >>,
                             "download_premium_quality")
        high     == Strategy("Format Haute Qualité 720p+", "{}p H.264 + audio optimal",
                             << max_height >>, "download_high_quality_adaptive")
        standard == Strategy("Format Standard 720p H.264+AAC", "720p H.264 + AAC", << >>,
                             "download_standard_quality")
        adaptive == Strategy("Format Adaptatif avec AAC",
                             "Meilleure qualité disponible ({}p) + AAC",
                             << max_height >>, "download_adaptive_with_aac")
        convert  == Strategy("Format Conversion AAC",
                             "Meilleure qualité disponible ({}p) + conversion AAC",
                             << max_height >>, "download_with_conversion")
        value ==
            IF (quality = "best" \/ quality = "1080p")
               /\ max_height >= 720 /\ has_h264 THEN high
            ELSE IF (quality = "best" \/ quality = "1080p")
                    /\ max_height >= 1080 /\ has_h264 /\ has_aac THEN premium
            ELSE IF (quality = "720p" \/ max_height >= 720) /\ has_h264 /\ has_aac THEN standard
            ELSE IF has_aac THEN adaptive
            ELSE convert
    IN  [value |-> value, ran |-> << >>]

\* The tiered body of _choose_best_strategy, which the source carries
\* commented out.
choose_best_strategy_tiered(available_formats, quality) ==
    LET max_height     == available_formats.max_height
        has_h264       == available_formats.has_h264
        has_aac        == available_formats.has_aac
        best_audio_aac == available_formats.best_audio_aac
        premium  == Strategy("Format Premium 1080p H.264+AAC", "1080p H.264 + AAC {}kbps",
                             << IF best_audio_aac # NoneDescriptor
                                THEN best_audio_aac.abr ELSE NotAvailable >>,
                             "download_premium_quality")
        high     == Strategy("Format Haute Qualité 720p+", "{}p H.264 + audio optimal",
                             << max_height >>, "download_high_quality_adaptive")
        standard == Strategy("Format Standard 720p H.264+AAC", "720p H.264 + AAC", << >>,
                             "download_standard_quality")
        adaptive == Strategy("Format Adaptatif avec AAC",
                             "Meilleure qualité disponible ({}p) + AAC",
                             << max_height >>, "download_adaptive_with_aac")
        convert  == Strategy("Format Conversion AAC",
                             "Meilleure qualité disponible ({}p) + conversion AAC",
                             << max_height >>, "download_with_conversion")
        value ==
            IF (quality = "best" \/ quality = "1080p")
               /\ max_height >= 1080 /\ has_h264 /\ has_aac THEN premium
            ELSE IF (quality = "best" \/ quality = "1080p")
                    /\ max_height >= 720 /\ has_h264 THEN high
            ELSE IF (quality = "720p" \/ max_height >= 720) /\ has_h264 /\ has_aac THEN standard
            ELSE IF has_aac THEN adaptive
            ELSE convert
    IN  [value |-> value, ran |-> << >>]

CatalogParked ==
    /\ c_pc = "parked"
    /\ c_extract = "none"
    /\ c_formats = << >>
    /\ c_quality = "none"
    /\ c_analysis = NoAnalysis
    /\ c_strategy = NoStrategy
    /\ c_ran = << >>

CatalogInit ==
    /\ c_pc = "ready"
    /\ c_extract \in {"ok", "raise"}
    /\ c_formats \in Catalogs
    /\ c_quality \in QualityTiers
    /\ c_analysis = NoAnalysis
    /\ c_strategy = NoStrategy
    /\ c_ran = << >>

\* available_formats = self._analyze_available_formats(url)
AnalyzeFormats ==
    /\ c_pc = "ready"
    /\ c_analysis' = analyze_available_formats(c_extract, c_formats)
    /\ c_pc' = "analyzed"
    /\ UNCHANGED <<c_extract, c_formats, c_quality, c_strategy, c_ran>>
    /\ UNCHANGED <<chainVars, queueVars, workerVars, scoreVars, nameVars, orchestrationVars, utilVars>>

\* best_strategy = self._choose_best_strategy(available_formats, quality),
\* reached only with an analysis ("if not available_formats" / "if formats").
ChooseBestStrategy ==
    /\ c_pc = "analyzed"
    /\ c_analysis # NoAnalysis
    /\ LET r == choose_best_strategy(c_analysis, c_quality)
       IN  /\ c_strategy' = r.value
           /\ c_ran' = c_ran \o r.ran
    /\ c_pc' = "chosen"
    /\ UNCHANGED <<c_extract, c_formats, c_quality, c_analysis>>
    /\ UNCHANGED <<chainVars, queueVars, workerVars, scoreVars, nameVars, orchestrationVars, utilVars>>

\* The same call with the tiered body in force.
ChooseBestStrategyTiered ==
    /\ c_pc = "analyzed"
    /\ c_analysis # NoAnalysis
    /\ LET r == choose_best_strategy_tiered(c_analysis, c_quality)
       IN  /\ c_strategy' = r.value
           /\ c_ran' = c_ran \o r.ran
    /\ c_pc' = "chosen"
    /\ UNCHANGED <<c_extract, c_formats, c_quality, c_analysis>>
    /\ UNCHANGED <<chainVars, queueVars, workerVars, scoreVars, nameVars, orchestrationVars, utilVars>>

CatalogNext == AnalyzeFormats \/ ChooseBestStrategy

TieredNext == AnalyzeFormats \/ ChooseBestStrategyTiered
-----------------------------------------------------------------------------
(***************************************************************************)
(* The two sanitize_filename functions (src/core/utils.py and              *)
(* YouTubeDownloader in src/core/downloader.py).                           *)
(***************************************************************************)

MaxTail == 2
MaxApply == 2
MaxNameLength == 200

\* the characters of forbidden_chars / invalid_chars
ForbiddenChars == {"<", ">", ":", "\"", "/", "\\", "|", "?", "*"}
Whitespace == {" ", "\t", "\n"}

\* str.lstrip(chars) and str.rstrip(chars)
RECURSIVE str_lstrip(_, _)
str_lstrip(s, chars) ==
    IF s # << >> /\ Head(s) \in chars THEN str_lstrip(Tail(s), chars) ELSE s

RECURSIVE str_rstrip(_, _)
str_rstrip(s, chars) ==
    IF s # << >> /\ s[Len(s)] \in chars THEN str_rstrip(SubSeq(s, 1, Len(s) - 1), chars) ELSE s

\* str.strip()
str_strip(s) == str_lstrip(str_rstrip(s, Whitespace), Whitespace)

\* re.sub(forbidden_chars, '_', filename); the loop of filename.replace(char, '_')
ReplaceForbidden(s) == [i \in 1..Len(s) |-> IF s[i] \in ForbiddenChars THEN "_" ELSE s[i]]

\* s[:200] when len(s) > 200
Truncate(s) == IF Len(s) > MaxNameLength THEN SubSeq(s, 1, MaxNameLength) ELSE s

DefaultName == << "f", "i", "c", "h", "i", "e", "r", "_", "s", "a", "n", "s", "_", "n", "o", "m" >>

\* sanitize_filename of src/core/utils.py without the length limit
utils_sanitize_filename_NoLimit(filename) ==
    LET sanitized == str_rstrip(str_strip(ReplaceForbidden(filename)), {"."})
    IN  IF sanitized = << >> THEN DefaultName ELSE sanitized

\* sanitize_filename of src/core/utils.py
utils_sanitize_filename(filename) ==
    LET sanitized == Truncate(str_rstrip(str_strip(ReplaceForbidden(filename)), {"."}))
    IN  IF sanitized = << >> THEN DefaultName ELSE sanitized

\* YouTubeDownloader.sanitize_filename
YouTubeDownloader_sanitize_filename(filename) ==
    str_strip(Truncate(ReplaceForbidden(filename)))

\* File names: a run of letters, as long as the limit or nearly so or absent,
\* followed by up to MaxTail characters among a letter, the space, the dot
\* and the forbidden characters.
NameAlphabet == {"a", " ", "."} \cup ForbiddenChars
PadLengths == {0, 1, MaxNameLength - 2, MaxNameLength - 1, MaxNameLength}
Pad(k) == [i \in 1..k |-> "a"]
FileNames == { Pad(k) \o t : k \in PadLengths, t \in SeqsUpTo(NameAlphabet, MaxTail) }

NameParked ==
    /\ n_impl = "none"
    /\ n_in = << >>
    /\ n_out = << >>

NameInit ==
    /\ n_impl \in {"utils", "downloader"}
    /\ n_in \in FileNames
    /\ n_out = << >>

\* the value the next application receives: the input, then the last output
NextArgument == IF n_out = << >> THEN n_in ELSE n_out[Len(n_out)]

\* sanitize_filename(...) of src/core/utils.py applied once more
SanitizeUtils ==
    /\ n_impl = "utils"
    /\ Len(n_out) < MaxApply
    /\ n_out' = Append(n_out, utils_sanitize_filename(NextArgument))
    /\ UNCHANGED <<n_impl, n_in>>
    /\ UNCHANGED <<chainVars, queueVars, workerVars, scoreVars, catalogVars, orchestrationVars, utilVars>>

\* self.sanitize_filename(...) of YouTubeDownloader applied once more
SanitizeDownloader ==
    /\ n_impl = "downloader"
    /\ Len(n_out) < MaxApply
    /\ n_out' = Append(n_out, YouTubeDownloader_sanitize_filename(NextArgument))
    /\ UNCHANGED <<n_impl, n_in>>
    /\ UNCHANGED <<chainVars, queueVars, workerVars, scoreVars, catalogVars, orchestrationVars, utilVars>>

NameNext == SanitizeUtils \/ SanitizeDownloader
-----------------------------------------------------------------------------
(***************************************************************************)
(* download_video_with_quality_optimized (src/core/downloader.py).         *)
(***************************************************************************)

\* best_strategy['function'](url, output_path, available_formats): a call
\* with three positional arguments.
SelectedCallArgs == 3

CallSelectedStrategy(attr, e, fs) ==
    IF YouTubeDownloaderMethods[attr] # SelectedCallArgs
    THEN Raise("TypeError", attr, fs, FALSE)
    ELSE StrategyBody(attr, e, fs)

NotSelected == [called |-> 0, entered |-> 0, outcome |-> "none"]

\* if result and os.path.exists(result)
ReturnedExistingPath(s) == s.kind = "return" /\ s.path # NoPath /\ s.path \in s.fs

\* How the call of the selected strategy went.
SelectedReport(s) ==
    [ called |-> 1,
      entered |-> IF s.entered THEN 1 ELSE 0,
      outcome |-> IF s.kind = "raise" THEN s.exc.type
                  ELSE IF ReturnedExistingPath(s) THEN "path" ELSE "no file" ]

\* The try block around the selected strategy and the fallback after it.
RunSelectedStrategy(e, available_formats, best_strategy, s) ==
    [ result |-> IF ReturnedExistingPath(s)
                 THEN [kind |-> "return", path |-> s.path, exc |-> NoExc, fs |-> s.fs,
                       invoked |-> << >>]
                 ELSE download_with_fallback_strategies(e, s.fs),
      analysis |-> available_formats,
      strategy |-> best_strategy,
      selected |-> SelectedReport(s),
      chain |-> ~ReturnedExistingPath(s) ]

\* The part of the method after "if not available_formats".
SelectAndRun(e, fs, available_formats, best_strategy) ==
    RunSelectedStrategy(e, available_formats, best_strategy,
                        CallSelectedStrategy(best_strategy.function, e, fs))

\* What one call did: its result, the analysis and the strategy it worked
\* with, how the selected strategy went, and whether the fallback chain was
\* called.
download_video_with_quality_optimized(e, fs, available_formats, quality) ==
    IF available_formats = NoAnalysis
    THEN [ result |-> download_with_fallback_strategies(e, fs),
           analysis |-> available_formats, strategy |-> NoStrategy,
           selected |-> NotSelected, chain |-> TRUE ]
    ELSE SelectAndRun(e, fs, available_formats,
                      choose_best_strategy(available_formats, quality).value)

V137 == Variant("137", S_avc1_64, 1080, 30, S_none, 0)
V140 == Variant("140", S_none, 0, 0, S_aac, 128)
V251 == Variant("251", S_none, 0, 0, S_opus, 160)
V303 == Variant("303", S_vp9, ValueNone, 60, S_none, 0)

\* Answers of the extraction collaborator the orchestration is run on: no
\* formats, video with AAC audio, video with Opus audio, and a list whose
\* analysis raises.
OrchestrationCatalogs == { << >>, << V137, V140 >>, << V137, V251 >>, << V303 >> }

OrchestrationParked ==
    /\ o_pc = "parked"
    /\ o_selected = NotSelected
    /\ o_chain = FALSE

OrchestrationInit ==
    /\ o_pc = "ready"
    /\ o_selected = NotSelected
    /\ o_chain = FALSE
    /\ ChainInit
    /\ c_pc = "parked"
    /\ c_extract \in {"ok", "raise"}
    /\ c_formats \in OrchestrationCatalogs
    /\ c_quality \in QualityTiers
    /\ c_analysis = NoAnalysis
    /\ c_strategy = NoStrategy
    /\ c_ran = << >>

\* One call of download_video_with_quality_optimized(url, output_path, quality).
CallDownloadOptimized ==
    /\ o_pc = "ready"
    /\ LET r == download_video_with_quality_optimized(
                    ch_env, ch_fs, analyze_available_formats(c_extract, c_formats), c_quality)
       IN  /\ o_pc' = "done"
           /\ o_selected' = r.selected
           /\ o_chain' = r.chain
           /\ c_analysis' = r.analysis
           /\ c_strategy' = r.strategy
           /\ ch_pc' = IF r.result.kind = "return" THEN "returned" ELSE "raised"
           /\ ch_fs' = r.result.fs
           /\ ch_invoked' = r.result.invoked
           /\ ch_result' = r.result.path
           /\ ch_exc' = r.result.exc
    /\ UNCHANGED <<ch_env, c_pc, c_extract, c_formats, c_quality, c_ran>>
    /\ UNCHANGED <<queueVars, workerVars, scoreVars, nameVars, utilVars>>

OrchestrationNext == CallDownloadOptimized

-----------------------------------------------------------------------------
-----------------------------------------------------------------------------
(***************************************************************************)
(* load_settings (src/core/utils.py): the hard-coded defaults, the JSON    *)
(* value found in the settings file and dict.update applied to it.         *)
(***************************************************************************)

MaxItems == 2

DefaultSettings ==
    [ output_path |-> "Downloads/YT-Downloader",
      default_format |-> "mp3",
      default_quality |-> "medium",
      create_subfolders |-> "True",
      overwrite_files |-> "False",
      max_concurrent_downloads |-> "3",
      theme |-> "dark",
      language |-> "fr" ]

SettingKeys == {"theme", "default_format", "volume"}
SettingValues == {"light", "wav"}

\* The elements a JSON array may hold, as dict.update sees them: a
\* two-element array and a two-character string are key/value pairs, a
\* number is not iterable, a longer array or another string has the wrong
\* length.
ArrayItems ==
    [kind : {"pair"}, key : SettingKeys, value : SettingValues]
    \cup { [kind |-> "string2", key |-> "a", value |-> "b"],
           [kind |-> "number", key |-> "", value |-> ""],
           [kind |-> "string1", key |-> "", value |-> ""],
           [kind |-> "triple", key |-> "", value |-> ""] }

\* JSON objects: sets of key/value pairs with one value per key.
JsonObjects ==
    { o \in SUBSET (SettingKeys \X SettingValues) :
          \A p \in o, q \in o : p[1] = q[1] => p = q }

JsonArrays == UNION { [1..n -> ArrayItems] : n \in 0..MaxItems }

\* What load_settings finds at settings_file.
SettingsFiles ==
    [kind : {"missing", "unreadable", "invalid", "scalar", "string"}, object : {{}}, array : {<< >>}]
    \cup [kind : {"object"}, object : JsonObjects, array : {<< >>}]
    \cup [kind : {"array"}, object : {{}}, array : JsonArrays]

\* Path.home(): the home directory, or RuntimeError when it cannot be
\* determined.
HomeOutcomes == {"found", "undetermined"}

\* dict.update(mapping)
update_from_mapping(d, o) ==
    [ k \in DOMAIN d \cup {p[1] : p \in o} |->
         IF \E p \in o : p[1] = k THEN (CHOOSE p \in o : p[1] = k)[2] ELSE d[k] ]

IsPair(item) == item.kind \in {"pair", "string2"}

\* dict.update(sequence): the elements are inserted one by one; the first
\* element that is not a pair raises and the insertions made so far stay.
RECURSIVE update_from_sequence(_, _)
update_from_sequence(d, items) ==
    IF items = << >> THEN d
    ELSE IF ~IsPair(Head(items)) THEN d
    ELSE update_from_sequence(
             [ k \in DOMAIN d \cup {Head(items).key} |->
                  IF k = Head(items).key THEN Head(items).value ELSE d[k] ],
             Tail(items))

NoSettings == [raised |-> FALSE, value |-> << >>]

\* load_settings(settings_file).  get_default_download_path() is evaluated
\* while the defaults are built, outside the try; every exception of the
\* try block is printed and swallowed.
load_settings(home, file) ==
    IF home = "undetermined" THEN [raised |-> TRUE, value |-> << >>]
    ELSE [ raised |-> FALSE,
           value |->
             CASE file.kind = "object" -> update_from_mapping(DefaultSettings, file.object)
               [] file.kind = "array"  -> update_from_sequence(DefaultSettings, file.array)
               [] OTHER -> DefaultSettings ]

SettingsParked ==
    /\ st_pc = "parked"
    /\ st_home = "found"
    /\ st_file = [kind |-> "missing", object |-> {}, array |-> << >>]
    /\ st_result = NoSettings

SettingsInit ==
    /\ st_pc = "ready"
    /\ st_home \in HomeOutcomes
    /\ st_file \in SettingsFiles
    /\ st_result = NoSettings

LoadSettings ==
    /\ st_pc = "ready"
    /\ st_pc' = "done"
    /\ st_result' = load_settings(st_home, st_file)
    /\ UNCHANGED <<st_home, st_file>>
    /\ UNCHANGED <<chainVars, queueVars, workerVars, scoreVars, catalogVars, nameVars, orchestrationVars, extensionVars, fixerVars, directVars, playlistVars>>

SettingsNext == LoadSettings
-----------------------------------------------------------------------------
(***************************************************************************)
(* The path a download function of YouTubeDownloader returns                *)
(* (src/core/downloader.py): the name prepare_filename reports, with its   *)
(* extension normalized and, in the conversion strategy, its temporary     *)
(* marker removed.  Paths are sequences of characters.                     *)
(***************************************************************************)

S_dot_mp4 == << ".", "m", "p", "4" >>
S_temp == << "_", "t", "e", "m", "p" >>
S_temp_mp4 == S_temp \o S_dot_mp4

\* s.endswith(suffix)
str_endswith(s, suffix) ==
    /\ Len(s) >= Len(suffix)
    /\ SubSeq(s, Len(s) - Len(suffix) + 1, Len(s)) = suffix

\* s.rfind(ch) + 1: the last position of ch in s, 0 when there is none
str_rfind(s, ch) ==
    IF \E i \in 1..Len(s) : s[i] = ch
    THEN CHOOSE i \in 1..Len(s) : s[i] = ch /\ \A j \in (i + 1)..Len(s) : s[j] # ch
    ELSE 0

\* os.path.splitext cutting at the first dot of the last component.
splitext_FirstDot(p) ==
    LET sepIndex == str_rfind(p, "/")
        dots     == {i \in (sepIndex + 2)..Len(p) : p[i] = "."}
    IN  IF dots # {}
        THEN LET dotIndex == CHOOSE i \in dots : \A j \in dots : i <= j
             IN  [root |-> SubSeq(p, 1, dotIndex - 1), ext |-> SubSeq(p, dotIndex, Len(p))]
        ELSE [root |-> p, ext |-> << >>]

\* os.path.splitext(p): the extension starts at the last dot of the last
\* component, unless only dots precede it in that component.
splitext(p) ==
    LET sepIndex == str_rfind(p, "/")
        dotIndex == str_rfind(p, ".")
    IN  IF dotIndex > sepIndex /\ \E k \in (sepIndex + 1)..(dotIndex - 1) : p[k] # "."
        THEN [root |-> SubSeq(p, 1, dotIndex - 1), ext |-> SubSeq(p, dotIndex, Len(p))]
        ELSE [root |-> p, ext |-> << >>]

\* if not downloaded_file.endswith('.mp4'):
\*     downloaded_file = os.path.splitext(downloaded_file)[0] + '.mp4'
normalized_filename(downloaded_file) ==
    IF ~str_endswith(downloaded_file, S_dot_mp4)
    THEN splitext(downloaded_file).root \o S_dot_mp4
    ELSE downloaded_file

\* s.replace(old, new): every occurrence, left to right
RECURSIVE str_replace(_, _, _)
str_replace(s, old, new) ==
    IF Len(s) < Len(old) THEN s
    ELSE IF SubSeq(s, 1, Len(old)) = old
         THEN new \o str_replace(SubSeq(s, Len(old) + 1, Len(s)), old, new)
         ELSE << Head(s) >> \o str_replace(Tail(s), old, new)

\* final_file = temp_file.replace('_temp.mp4', '.mp4')
final_file_name(temp_file) == str_replace(temp_file, S_temp_mp4, S_dot_mp4)

\* The download functions, by the name template they give the retrieval:
\* '%(title)s.%(ext)s' or '%(title)s_temp.%(ext)s'.
PlainNameFunctions ==
    {"download_with_format", "download_h264_high_quality", "download_adaptive_quality"}
TempNameFunctions == {"download_with_format_temp", "download_and_convert_hq"}
DownloadFunctions == PlainNameFunctions \cup TempNameFunctions

\* Output directories, titles and the extensions prepare_filename reports.
OutputDirs == { << >>, << "o", "/" >>, << "o", ".", "d", "/" >> }
Titles == { << "a" >>, << "a", ".", "b" >>, << "m", "p", "4" >> }
ReportedExts ==
    { S_dot_mp4, << ".", "w", "e", "b", "m" >>, << ".", "m", "k", "v" >>,
      << ".", "M", "P", "4" >> }

\* ydl.prepare_filename(info) for the function's template
ReportedPaths(fn) ==
    { dir \o title \o (IF fn \in TempNameFunctions THEN S_temp ELSE << >>) \o ext :
          dir \in OutputDirs, title \in Titles, ext \in ReportedExts }

\* The path the function returns when the retrieval reported this one.
returned_path(fn, reported) ==
    IF fn = "download_and_convert_hq"
    THEN final_file_name(normalized_filename(reported))
    ELSE normalized_filename(reported)

ExtensionParked ==
    /\ x_pc = "parked"
    /\ x_fn = "none"
    /\ x_reported = << >>
    /\ x_returned = << >>

ExtensionInit ==
    /\ x_pc = "ready"
    /\ x_fn \in DownloadFunctions
    /\ x_reported \in ReportedPaths(x_fn)
    /\ x_returned = << >>

ReturnPath ==
    /\ x_pc = "ready"
    /\ x_pc' = "done"
    /\ x_returned' = returned_path(x_fn, x_reported)
    /\ UNCHANGED <<x_fn, x_reported>>
    /\ UNCHANGED <<chainVars, queueVars, workerVars, scoreVars, catalogVars, nameVars, orchestrationVars, settingsVars, fixerVars, directVars, playlistVars>>

ExtensionNext == ReturnPath
-----------------------------------------------------------------------------
(***************************************************************************)
(* _ensure_aac_audio (src/core/converter.py) as a function of              *)
(* self.temp_file and of what the probe, the transcoder and the renames    *)
(* do, started on a file that exists.                                      *)
(***************************************************************************)

TempFileNames == {TempFile, UnmarkedFile}

FixerParked ==
    /\ f_pc = "parked"
    /\ f_temp_file = NoPath
    /\ f_env = NoFixerEnv
    /\ f_fs = {}

FixerInit ==
    /\ f_pc = "ready"
    /\ f_temp_file \in TempFileNames
    /\ f_env \in FixerEnvs
    /\ f_fs = {f_temp_file}

EnsureAacAudio ==
    /\ f_pc = "ready"
    /\ LET r == ensure_aac_audio(f_env, f_fs, f_temp_file)
       IN  /\ f_pc' = IF r.kind = "return" THEN "returned" ELSE "raised"
           /\ f_fs' = r.fs
    /\ UNCHANGED <<f_temp_file, f_env>>
    /\ UNCHANGED <<chainVars, queueVars, workerVars, scoreVars, catalogVars, nameVars, orchestrationVars, settingsVars, extensionVars, directVars, playlistVars>>

FixerNext == EnsureAacAudio
-----------------------------------------------------------------------------
(***************************************************************************)
(* download_with_selected_quality and download_with_format_id              *)
(* (src/core/downloader.py): one retrieval, the extension normalised, then *)
(* the module-level convert_to_aac into the '_aac' name, which is          *)
(* returned.                                                               *)
(***************************************************************************)

AacFile == "title_aac.mp4"

DirectMethods == {"download_with_selected_quality", "download_with_format_id"}

\* What the collaborators do: the metadata extraction that only
\* download_with_selected_quality makes, the retrieval and the transcoder.
DirectEnvs ==
    [ meta : MetaOutcomes, dl : DownloadOutcomes, transcode : TranscodeOutcomes ]

NoDirectEnv == [meta |-> "ok", dl |-> "raise", transcode |-> "ok"]

\* Files of an earlier download of the same item.
EarlierFiles == SUBSET {FinalFile, AacFile}

\* The module-level convert_to_aac(input_file, output_file): True on exit 0, False on
\* CalledProcessError; a missing binary raises FileNotFoundError.
module_convert_to_aac(e, fs, input_file, output_file) ==
    IF e.transcode = "notfound"
    THEN [kind |-> "raise", ok |-> FALSE, fs |-> fs]
    ELSE IF e.transcode = "ok" /\ input_file \in fs
         THEN [kind |-> "return", ok |-> TRUE, fs |-> fs \cup {output_file}]
         ELSE [kind |-> "return", ok |-> FALSE, fs |-> fs]

\* The shared tail of the two methods, from the retrieval on.
download_and_convert_to_aac(e, fs) ==
    IF e.dl = "raise" THEN Raise("DownloadError", "download", fs, TRUE)
    ELSE LET fs1 == IF e.dl = "file" THEN fs \cup {FinalFile} ELSE fs
             c   == module_convert_to_aac(e, fs1, FinalFile, AacFile)
         IN  IF c.kind = "raise"
             THEN Raise("FileNotFoundError", "ffmpeg", c.fs, TRUE)
             ELSE Ret(AacFile, c.fs)

\* download_with_selected_quality(url, output_path, selected_format_id)
download_with_selected_quality(e, fs) ==
    IF e.meta = "raise" THEN Raise("DownloadError", "extract_info", fs, TRUE)
    ELSE download_and_convert_to_aac(e, fs)

\* download_with_format_id(url, output_path, format_id)
download_with_format_id(e, fs) == download_and_convert_to_aac(e, fs)

NoResult == Raise("none", "none", {}, FALSE)

DirectParked ==
    /\ d_pc = "parked"
    /\ d_method = "none"
    /\ d_env = NoDirectEnv
    /\ d_fs = {}
    /\ d_result = NoResult

DirectInit ==
    /\ d_pc = "ready"
    /\ d_method \in DirectMethods
    /\ d_env \in DirectEnvs
    /\ d_fs \in EarlierFiles
    /\ d_result = NoResult

CallDirect ==
    /\ d_pc = "ready"
    /\ LET r == IF d_method = "download_with_selected_quality"
                THEN download_with_selected_quality(d_env, d_fs)
                ELSE download_with_format_id(d_env, d_fs)
       IN  /\ d_result' = r
           /\ d_fs' = r.fs
    /\ d_pc' = "done"
    /\ UNCHANGED <<d_method, d_env>>
    /\ UNCHANGED <<chainVars, queueVars, workerVars, scoreVars, catalogVars, nameVars, orchestrationVars, settingsVars, extensionVars, fixerVars, playlistVars>>

DirectNext == CallDirect
-----------------------------------------------------------------------------
(***************************************************************************)
(* PlaylistDownloader (src/core/converter.py): run() and cancel().         *)
(***************************************************************************)

MaxEntries == 2

\* playlist_info['entries']: an entry is a mapping, or None for a video that
\* is not available.
EntryKinds == {"entry", "none"}
EntryLists == UNION { [1..n -> EntryKinds] : n \in 0..MaxEntries }

\* ydl.extract_info(url, download=False): it raises, it returns a mapping
\* without 'entries', or a playlist.
PlaylistInfos ==
    [kind : {"raise", "no_entries"}, entries : {<< >>}]
    \cup [kind : {"playlist"}, entries : EntryLists]

\* Signals of the playlist thread: video_finished(title, success),
\* progress(current, total), all_finished(success, message).
VideoFinished(i, ok) == [sig |-> "video_finished", i |-> i, n |-> 0, ok |-> ok]
PlaylistProgress(i, n) == [sig |-> "progress", i |-> i, n |-> n, ok |-> TRUE]
AllFinished(ok) == [sig |-> "all_finished", i |-> 0, n |-> 0, ok |-> ok]

\* if not self.is_cancelled: self.all_finished.emit(True, ...)
after_loop_signals(cancelled) == IF ~cancelled THEN << AllFinished(TRUE) >> ELSE << >>

PlaylistParked ==
    /\ p_pc = "parked"
    /\ p_info = [kind |-> "raise", entries |-> << >>]
    /\ p_i = 0
    /\ p_cancelled = FALSE
    /\ p_out = << >>

PlaylistInit ==
    /\ p_pc = "start"
    /\ p_info \in PlaylistInfos
    /\ p_i = 0
    /\ p_cancelled = FALSE
    /\ p_out = << >>

\* cancel()
PlaylistCancel ==
    /\ p_pc \notin {"parked", "stopped"}
    /\ ~p_cancelled
    /\ p_cancelled' = TRUE
    /\ UNCHANGED <<p_pc, p_info, p_i, p_out>>
    /\ UNCHANGED <<chainVars, queueVars, workerVars, scoreVars, catalogVars, nameVars, orchestrationVars, settingsVars, extensionVars, fixerVars, directVars>>

\* run() up to the loop: the extraction and the 'entries' test.
PlaylistExtract ==
    /\ p_pc = "start"
    /\ IF p_info.kind = "playlist"
       THEN /\ p_pc' = "loop"
            /\ UNCHANGED p_out
       ELSE /\ p_pc' = "stopped"
            /\ p_out' = Append(p_out, AllFinished(FALSE))
    /\ UNCHANGED <<p_info, p_i, p_cancelled>>
    /\ UNCHANGED <<chainVars, queueVars, workerVars, scoreVars, catalogVars, nameVars, orchestrationVars, settingsVars, extensionVars, fixerVars, directVars>>

\* The head of one iteration: the end of the list and
\* `if self.is_cancelled: break`.
PlaylistLoopHead ==
    /\ p_pc = "loop"
    /\ p_pc' = IF p_i = Len(p_info.entries) \/ p_cancelled THEN "after" ELSE "entry"
    /\ UNCHANGED <<p_info, p_i, p_cancelled, p_out>>
    /\ UNCHANGED <<chainVars, queueVars, workerVars, scoreVars, catalogVars, nameVars, orchestrationVars, settingsVars, extensionVars, fixerVars, directVars>>

\* entry.get(...) on the entry, which raises on None, then the worker of
\* the entry is created and its download starts.
PlaylistEntryBegin ==
    /\ p_pc = "entry"
    /\ IF p_info.entries[p_i + 1] = "none"
       THEN /\ p_pc' = "stopped"
            /\ p_out' = Append(p_out, AllFinished(FALSE))
       ELSE /\ p_pc' = "download"
            /\ UNCHANGED p_out
    /\ UNCHANGED <<p_info, p_i, p_cancelled>>
    /\ UNCHANGED <<chainVars, queueVars, workerVars, scoreVars, catalogVars, nameVars, orchestrationVars, settingsVars, extensionVars, fixerVars, directVars>>

\* _download_single_video returns True or False; video_finished and
\* progress(i + 1, total_videos) are emitted.
PlaylistEntryEnd ==
    /\ p_pc = "download"
    /\ \E success \in BOOLEAN :
          p_out' = p_out \o << VideoFinished(p_i + 1, success),
                               PlaylistProgress(p_i + 1, Len(p_info.entries)) >>
    /\ p_i' = p_i + 1
    /\ p_pc' = "loop"
    /\ UNCHANGED <<p_info, p_cancelled>>
    /\ UNCHANGED <<chainVars, queueVars, workerVars, scoreVars, catalogVars, nameVars, orchestrationVars, settingsVars, extensionVars, fixerVars, directVars>>

\* After the loop.
PlaylistAfterLoop ==
    /\ p_pc = "after"
    /\ p_pc' = "stopped"
    /\ p_out' = p_out \o after_loop_signals(p_cancelled)
    /\ UNCHANGED <<p_info, p_i, p_cancelled>>
    /\ UNCHANGED <<chainVars, queueVars, workerVars, scoreVars, catalogVars, nameVars, orchestrationVars, settingsVars, extensionVars, fixerVars, directVars>>

PlaylistNext ==
    \/ PlaylistCancel
    \/ PlaylistExtract
    \/ PlaylistLoopHead
    \/ PlaylistEntryBegin
    \/ PlaylistEntryEnd
    \/ PlaylistAfterLoop

UtilParked == SettingsParked /\ ExtensionParked /\ FixerParked /\ DirectParked /\ PlaylistParked

PureParked == ScoreParked /\ CatalogParked /\ NameParked /\ OrchestrationParked /\ UtilParked

InitChain == ChainInit /\ QueueInit /\ WorkerParked /\ PureParked

SpecChain == InitChain /\ [][ChainNext]_vars

InitQueue == QueueInit /\ ChainParked /\ WorkerParked /\ PureParked

SpecQueue == InitQueue /\ [][QueueNext]_vars

\* The queue has no part in a single worker's run: it stays as constructed.
InitWorker == WorkerInit /\ ChainParked /\ QueueInit /\ PureParked

SpecWorker == InitWorker /\ [][WorkerNext]_vars

\* The scoring functions are applied to descriptors; nothing else runs.
InitScore == ScoreInit /\ ChainParked /\ QueueInit /\ WorkerParked /\ CatalogParked /\ NameParked /\ OrchestrationParked /\ UtilParked

SpecScore == InitScore /\ [][ScoreNext]_vars

\* One analysis of a catalog followed by the selection of a strategy.
InitCatalog == CatalogInit /\ ChainParked /\ QueueInit /\ WorkerParked /\ ScoreParked /\ NameParked /\ OrchestrationParked /\ UtilParked

SpecCatalog == InitCatalog /\ [][CatalogNext]_vars

SpecTiered == InitCatalog /\ [][TieredNext]_vars

\* A file name is sanitized, and the result sanitized again.
InitName == NameInit /\ ChainParked /\ QueueInit /\ WorkerParked /\ ScoreParked /\ CatalogParked /\ OrchestrationParked /\ UtilParked

SpecName == InitName /\ [][NameNext]_vars

\* One call of download_video_with_quality_optimized.
InitOrchestration == OrchestrationInit /\ QueueInit /\ WorkerParked /\ ScoreParked /\ NameParked /\ UtilParked

SpecOrchestration == InitOrchestration /\ [][OrchestrationNext]_vars

\* One call of load_settings.
InitSettings == SettingsInit /\ ChainParked /\ QueueInit /\ WorkerParked /\ ScoreParked /\ CatalogParked /\ NameParked /\ OrchestrationParked /\ ExtensionParked /\ FixerParked /\ DirectParked /\ PlaylistParked

SpecSettings == InitSettings /\ [][SettingsNext]_vars

\* One download function computing the path it returns.
InitExtension == ExtensionInit /\ ChainParked /\ QueueInit /\ WorkerParked /\ ScoreParked /\ CatalogParked /\ NameParked /\ OrchestrationParked /\ SettingsParked /\ FixerParked /\ DirectParked /\ PlaylistParked

SpecExtension == InitExtension /\ [][ExtensionNext]_vars

\* One call of _ensure_aac_audio on an existing file.
InitFixer == FixerInit /\ ChainParked /\ QueueInit /\ WorkerParked /\ ScoreParked /\ CatalogParked /\ NameParked /\ OrchestrationParked /\ SettingsParked /\ ExtensionParked /\ DirectParked /\ PlaylistParked

SpecFixer == InitFixer /\ [][FixerNext]_vars

\* One call of a download method that takes a format id.
InitDirect == DirectInit /\ ChainParked /\ QueueInit /\ WorkerParked /\ ScoreParked /\ CatalogParked /\ NameParked /\ OrchestrationParked /\ SettingsParked /\ ExtensionParked /\ FixerParked /\ PlaylistParked

SpecDirect == InitDirect /\ [][DirectNext]_vars

\* One run of a PlaylistDownloader thread, with cancel() at any moment.
InitPlaylist == PlaylistInit /\ ChainParked /\ QueueInit /\ WorkerParked /\ ScoreParked /\ CatalogParked /\ NameParked /\ OrchestrationParked /\ SettingsParked /\ ExtensionParked /\ FixerParked /\ DirectParked

SpecPlaylist == InitPlaylist /\ [][PlaylistNext]_vars

-----------------------------------------------------------------------------
(***************************************************************************)
(* Claims about the fallback chain.  The precondition of each claim is     *)
(* stated on the collaborators' behaviour (ch_env).                        *)
(***************************************************************************)

\* Strategy i, given its declared contract, ends with a path that exists.
StrategySucceeds(e, i) ==
    CASE i = 1 -> e.dl[1] = "file"
      [] i = 2 -> e.dl[2] = "file"
      [] i = 3 -> e.meta3 = "ok" /\ e.dl[3] = "file"
      [] i = 4 -> e.dl[4] = "file" /\ e.transcode # "notfound"

\* C1: when strategies 1..k-1 fail and strategy k returns an existing path,
\* exactly strategies 1..k are invoked in the declared order, the call
\* returns strategy k's path, and no later strategy is invoked.
C1_FirstSuccessWins ==
    \A k \in 1..4 :
        ( /\ ch_pc # "ready"
          /\ StrategySucceeds(ch_env, k)
          /\ \A j \in 1..(k-1) : ~StrategySucceeds(ch_env, j) )
        => ( /\ ch_pc = "returned"
             /\ ch_invoked = [j \in 1..k |-> j]
             /\ ch_result = FinalFile
             /\ ch_result \in ch_fs )

\* C2: when all four strategies fail the chain raises the aggregate failure
\* "all strategies exhausted", and the chain never raises anything else.
C2_ExhaustedIsAggregate ==
    /\ ( ch_pc # "ready" /\ (\A k \in 1..4 : ~StrategySucceeds(ch_env, k)) )
         => ( ch_pc = "raised" /\ ch_exc = [type |-> "Exception", msg |-> AllFailedMsg] )
    /\ ( ch_pc = "raised" => ch_exc = [type |-> "Exception", msg |-> AllFailedMsg] )

\* C3: when strategies 1-3 fail and the convert-forced strategy's download
\* writes a file, the chain returns a path that exists on disk, whether the
\* transcode succeeds or fails.
C3_LastEntryGuarantees ==
    ( /\ ch_pc # "ready"
      /\ \A j \in 1..3 : ~StrategySucceeds(ch_env, j)
      /\ ch_env.dl[4] = "file" )
    => ( ch_pc = "returned" /\ ch_result # NoPath /\ ch_result \in ch_fs )

-----------------------------------------------------------------------------
(***************************************************************************)
(* Claims about the download queue.                                        *)
(***************************************************************************)

RunningWorkers == {w \in 1..Len(q_workers) : q_workers[w].phase # "stopped"}
EndedWorkers == {w \in 1..Len(q_workers) : q_workers[w].phase = "stopped"}
RowsStored(st) == {i \in ListItems(QState) : q_stored[i] = st}
RowsShown(st) == {i \in ListItems(QState) : q_shown[i] = st}
EventsOf(w) == {k \in 1..Len(q_events) : q_events[k].w = w}

C4_AtMostOne ==
    /\ Cardinality(RunningWorkers) <= 1
    /\ Cardinality(RowsStored(InProgress)) <= 1
    /\ Cardinality(RowsShown(InProgress)) <= 1

C4_StartOnlyWhenIdle ==
    Len(q_workers') > Len(q_workers) => RunningWorkers = {}

\* C4: capacity 1.  After any sequence of enqueue, worker-finished,
\* worker-error and clear-queue events at most one DownloadWorker is running
\* and at most one row of the queue is in progress (in its stored status and
\* in its displayed status), and a worker is created only in a step that
\* begins with no worker running.
C4_CapacityOne == []C4_AtMostOne /\ [][C4_StartOnlyWhenIdle]_vars

\* C4 witness: a worker is running, another row of the queue is waiting, and
\* start_next_download has just declined to start it.
C4_Witness ==
    /\ Cardinality(RunningWorkers) = 1
    /\ q_log = "busy"
    /\ \E i \in RowsStored(Pending) : \A w \in RunningWorkers : q_workers[w].item # i

\* C5: a finished or failed job does not block the queue.  Stated on the
\* states from which only the user can act: while the application is alive,
\* once a worker has ended, no worker runs and every notification has been
\* handled, no row of the queue is still waiting.
C5_QueueNeverStalls ==
    ( /\ q_app = "running"
      /\ EndedWorkers # {}
      /\ RunningWorkers = {}
      /\ q_events = <<>> )
    => RowsStored(Pending) = {}

\* C6: a job whose worker failed ends as 'Erreur', and a row is recorded or
\* displayed as 'Terminé' only if a worker of that job reported success.
C6_FailedIsNeverCompleted ==
    /\ \A w \in 1..Len(q_workers) :
          ( /\ q_app = "running"
            /\ q_workers[w].ok = "fail"
            /\ q_workers[w].phase = "stopped"
            /\ EventsOf(w) = {}
            /\ q_workers[w].item \in ListItems(QState) )
          => ( /\ q_stored[q_workers[w].item] = Failed
               /\ q_shown[q_workers[w].item] = Failed )
    /\ \A i \in ListItems(QState) :
          (q_stored[i] = Completed \/ q_shown[i] = Completed)
          => \E w \in 1..Len(q_workers) : q_workers[w].item = i /\ q_workers[w].ok = "ok"

-----------------------------------------------------------------------------
(***************************************************************************)
(* Claims about one DownloadWorker.                                        *)
(***************************************************************************)

FinishedCount == Cardinality({k \in 1..Len(w_out) : w_out[k].sig = "finished"})
IsHookSignal(x) == x.by = "hook"
HookSignals(out) == SelectSeq(out, IsHookSignal)
FixerProbed == w_env # NoFixerEnv

\* C7: every run of a DownloadWorker delivers exactly one finished(success,
\* message) notification, whichever way run() ends.
C7_ExactlyOneFinished ==
    /\ FinishedCount <= 1
    /\ w_pc = "stopped" => FinishedCount = 1

C8_TickSeesCancel ==
    (w_cancelled /\ w_ticks' # w_ticks)
    => ( /\ w_pc' = "except"
         /\ w_err' = "cancelled"
         /\ w_tick' = NoTick
         /\ w_out' = w_out )

C8_AbortedStaysQuiet ==
    w_err = "cancelled"
    => ( /\ w_ticks' = w_ticks
         /\ HookSignals(w_out') = HookSignals(w_out) )

\* C8: cooperative cancellation.  A progress tick that begins once cancel()
\* has set the flag raises the download error before emitting anything, and
\* from then on the retrieval is over: no further tick runs and the progress
\* callback emits nothing more.
C8_CancelStopsProgress == [][C8_TickSeesCancel]_vars /\ [][C8_AbortedStaysQuiet]_vars

\* C8 witness: the hook had emitted progress, cancel() was called, and the
\* next tick raised the cancellation error.
C8_Witness ==
    /\ w_cancelled
    /\ w_err = "cancelled"
    /\ w_pc = "stopped"
    /\ Len(HookSignals(w_out)) > 0

\* C9: when the codec probe of the existing temp file fails, the fixer never
\* invokes the transcoding collaborator and renames the temp file to the
\* name carrying the '_original' marker.
C9_ProbeFailureNeverTranscodes ==
    (FixerProbed /\ ~w_env.probe.ok)
    => ( /\ w_transcodes = 0
         /\ w_env.rename_original = "ok" => (OriginalFile \in w_fs /\ TempFile \notin w_fs) )

\* str.lower() on the codec names of the model.
Lower(name) == IF name = "AAC" THEN "aac" ELSE name

AcceptedAsAac == {"aac", "aac_low", "aac_he", "aac_he_v2"}

\* C10: a probed codec that is, case-insensitively, one of aac, aac_low,
\* aac_he, aac_he_v2 is renamed to the final name without transcoding, and
\* the transcoder runs only for a successfully probed codec outside the set.
C10_AacIsRenamedNotTranscoded ==
    /\ (FixerProbed /\ w_env.probe.ok /\ Lower(w_env.probe.name) \in AcceptedAsAac)
       => ( /\ w_transcodes = 0
            /\ w_env.rename_final = "ok" => (FinalFile \in w_fs /\ TempFile \notin w_fs) )
    /\ w_transcodes > 0
       => (w_env.probe.ok /\ Lower(w_env.probe.name) \notin AcceptedAsAac)

FinishedWith(text) ==
    \E k \in 1..Len(w_out) : w_out[k].sig = "finished" /\ w_out[k].text = text

\* C11: when the transcoding collaborator fails (it exits with a non-zero
\* status), the fixer renames the temp file to the final, unmarked name and
\* the job completes as a success; the job is reported as failed only if
\* that rename itself failed.
C11_TranscodeFailureFallsBackToRename ==
    (FixerProbed /\ w_transcodes > 0 /\ w_env.transcode = "nonzero")
    => ( /\ w_env.rename_final = "ok"
            => ( /\ FinalFile \in w_fs
                 /\ TempFile \notin w_fs
                 /\ OriginalFile \notin w_fs
                 /\ w_err = "none"
                 /\ w_pc \in {"success", "stopped"}
                 /\ w_pc = "stopped" => FinishedWith("True") )
         /\ (w_err = "fixer" \/ FinishedWith("False"))
            => w_env.rename_final = "oserror" )

\* C11 witness: the transcoder was invoked and exited non-zero, the temp file
\* was renamed to the final name and the run ended with finished(True).
C11_Witness ==
    /\ FixerProbed
    /\ w_transcodes > 0
    /\ w_env.transcode = "nonzero"
    /\ FinalFile \in w_fs
    /\ TempFile \notin w_fs
    /\ w_pc = "stopped"
    /\ FinishedWith("True")

\* C11 second case: the fallback rename failed as well and the job failed.
C11_WitnessRenameFailed ==
    /\ FixerProbed
    /\ w_transcodes > 0
    /\ w_env.transcode = "nonzero"
    /\ w_env.rename_final = "oserror"
    /\ w_pc = "stopped"
    /\ FinishedWith("False")

-----------------------------------------------------------------------------
(***************************************************************************)
(* Claims about the scoring functions.                                     *)
(***************************************************************************)

NameContains(sub, name) == str_in(sub, str_lower(name))

AudioPairScored == s_pc = "scored" /\ s_kind = "audio"
VideoPairScored == s_pc = "scored" /\ s_kind = "video"

\* C15 as stated: a descriptor whose codec name contains 'aac' (whatever the
\* case) at 128 kbps scores strictly more than any descriptor whose codec
\* name does not contain 'aac' at 320 kbps.
C15_AacOutscoresAnyOtherName ==
    ( /\ AudioPairScored
      /\ NameContains(S_aac, s_args[1].acodec) /\ s_args[1].abr = 128
      /\ ~NameContains(S_aac, s_args[2].acodec) /\ s_args[2].abr = 320 )
    => s_scores[1] > s_scores[2]

\* C15 amended: a descriptor whose codec name contains 'aac' at 128 kbps
\* scores strictly more than a descriptor at 320 kbps whose codec name
\* contains neither 'aac' nor 'mp4a'; a name containing 'mp4a' (45 + 30)
\* outscores it.
C15_AacOutscoresOtherFamilies ==
    ( /\ AudioPairScored
      /\ NameContains(S_aac, s_args[1].acodec) /\ s_args[1].abr = 128 )
    => ( /\ ( /\ ~NameContains(S_aac, s_args[2].acodec)
              /\ ~NameContains(S_mp4a, s_args[2].acodec)
              /\ s_args[2].abr = 320 )
            => (s_scores[1] = 70 /\ s_scores[1] > s_scores[2])
         /\ ( /\ NameContains(S_mp4a, s_args[2].acodec)
              /\ ~NameContains(S_aac, s_args[2].acodec)
              /\ s_args[2].abr = 320 )
            => s_scores[2] = 75 )

\* C15 witness: AAC at 128 kbps scored against Opus at 320 kbps.
C15_Witness ==
    /\ AudioPairScored
    /\ s_args[1] = [acodec |-> << "A", "A", "C" >>, abr |-> 128]
    /\ s_args[2] = [acodec |-> << "o", "p", "u", "s" >>, abr |-> 320]
    /\ s_scores = << 70, 60 >>

H264Names == { << "a", "v", "c", "1", ".", "6", "4" >>, << "H", "2", "6", "4" >> }

HeightTier(height) ==
    CASE height >= 1080 -> 100
      [] height >= 720 /\ height < 1080 -> 75
      [] height >= 480 /\ height < 720 -> 50
      [] OTHER -> 25

FpsBonus(fps) ==
    CASE fps >= 60 -> 20
      [] fps >= 30 /\ fps < 60 -> 10
      [] OTHER -> 0

H264Bonus(vcodec) == IF vcodec \in H264Names THEN 15 ELSE 0

\* C16: the video score is height tier + frame-rate bonus + 15 for H.264, and
\* raising the height, raising the frame rate, or going from a non-H.264 to
\* an H.264 codec with the other two fields fixed never lowers it.
C16_VideoScoreMonotone ==
    VideoPairScored
    => LET a == s_args[1]
           b == s_args[2]
       IN  /\ \A i \in 1..2 :
                s_scores[i] = HeightTier(s_args[i].height) + FpsBonus(s_args[i].fps)
                              + H264Bonus(s_args[i].vcodec)
           /\ (a.height <= b.height /\ a.fps = b.fps /\ a.vcodec = b.vcodec)
              => s_scores[1] <= s_scores[2]
           /\ (a.fps <= b.fps /\ a.height = b.height /\ a.vcodec = b.vcodec)
              => s_scores[1] <= s_scores[2]
           /\ (a.vcodec \notin H264Names /\ b.vcodec \in H264Names
               /\ a.height = b.height /\ a.fps = b.fps)
              => s_scores[1] <= s_scores[2]

\* C16 witness: two descriptors that differ in the frame rate only, 30 against
\* 60 frames per second, scored 125 and 135.
C16_Witness ==
    /\ VideoPairScored
    /\ s_args[1].height = 1080 /\ s_args[2].height = 1080
    /\ s_args[1].vcodec \in H264Names /\ s_args[2].vcodec = s_args[1].vcodec
    /\ s_args[1].fps = 30 /\ s_args[2].fps = 60
    /\ s_scores = << 125, 135 >>

-----------------------------------------------------------------------------
(***************************************************************************)
(* Claims about format analysis and strategy selection.                    *)
(***************************************************************************)

HasAnalysis == c_pc # "ready" /\ c_analysis # NoAnalysis
Chosen == c_pc = "chosen"

ForcedConversion ==
    [ name |-> "Conversion Haute Qualité Forcée",
      description |-> [text |-> "Conversion AAC optimisée garantie", args |-> << >>],
      function |-> "download_and_convert_hq" ]

\* C12: as shipped, _choose_best_strategy returns one and the same strategy
\* (name, description, bound function) for every analysis and every
\* requested tier, and selecting it runs no strategy function.
C12_SelectorIsConstant ==
    /\ Chosen => c_strategy = ForcedConversion
    /\ c_ran = << >>

\* C12 witness: the forced strategy was selected for tier '720p' on a catalog
\* with H.264 at 1080p and AAC audio.
C12_Witness ==
    /\ Chosen
    /\ c_quality = "720p"
    /\ c_analysis.max_height >= 1080 /\ c_analysis.has_h264 /\ c_analysis.has_aac
    /\ c_strategy = ForcedConversion

\* C13: under tiered selection with tier 'best' or '1080p', an analysis with
\* max height >= 1080, H.264 present and AAC present yields the premium
\* strategy, whatever else the catalog contains.
C13_PremiumFirst ==
    ( /\ Chosen
      /\ c_quality \in {"best", "1080p"}
      /\ c_analysis.max_height >= 1080
      /\ c_analysis.has_h264
      /\ c_analysis.has_aac )
    => ( /\ c_strategy.name = "Format Premium 1080p H.264+AAC"
         /\ c_strategy.function = "download_premium_quality" )

\* C13 witness: premium selected for a catalog that also holds an Opus variant.
C13_Witness ==
    /\ Chosen
    /\ c_quality = "best"
    /\ c_analysis.max_height >= 1080 /\ c_analysis.has_h264 /\ c_analysis.has_aac
    /\ \E i \in 1..Len(c_analysis.audio_formats) : c_analysis.audio_formats[i].acodec = S_opus
    /\ c_strategy.function = "download_premium_quality"

OnlyOpusAudio ==
    /\ c_analysis.audio_formats # << >>
    /\ \A i \in 1..Len(c_analysis.audio_formats) :
          NameContains(S_opus, c_analysis.audio_formats[i].acodec)
    /\ ~c_analysis.has_aac
    /\ c_analysis.best_audio_aac = NoneDescriptor

\* C14: under tiered selection, for a catalog whose audio variants are all
\* Opus, whatever its video variants and the requested tier, the selector
\* chooses the conversion strategy.
C14_OpusOnlyConverts ==
    (Chosen /\ OnlyOpusAudio)
    => ( /\ c_strategy.name = "Format Conversion AAC"
         /\ c_strategy.function = "download_with_conversion" )

VideoVariants == SelectSeq(c_formats, IsVideoVariant)
AacVariants == SelectSeq(c_formats, LAMBDA fmt : IsAudioVariant(fmt) /\ NameContains(S_aac, fmt.acodec))
VideoScoreOf(fmt) == calculate_video_quality_score(fmt.height, fmt.fps, fmt.vcodec)
AudioScoreOf(fmt) == calculate_audio_quality_score(fmt.acodec, fmt.abr)

\* index of the first variant of seq whose score is the maximum
FirstMax(seq, ScoreOf(_)) ==
    CHOOSE k \in 1..Len(seq) :
        /\ \A j \in 1..Len(seq) : ScoreOf(seq[j]) <= ScoreOf(seq[k])
        /\ \A j \in 1..(k - 1) : ScoreOf(seq[j]) < ScoreOf(seq[k])

\* C19: in every analysis, best_video is the first video descriptor in input
\* order whose score is the maximum video score, and best_audio_aac is the
\* first AAC audio descriptor in input order whose score is the maximum
\* among the AAC descriptors.
C19_FirstMaximumWins ==
    HasAnalysis
    => ( /\ IF VideoVariants = << >>
            THEN c_analysis.best_video = NoneDescriptor
            ELSE LET v == VideoVariants[FirstMax(VideoVariants, VideoScoreOf)]
                 IN  c_analysis.best_video =
                        [ format_id |-> v.format_id, height |-> v.height, fps |-> v.fps,
                          vcodec |-> v.vcodec, quality_score |-> VideoScoreOf(v) ]
         /\ IF AacVariants = << >>
            THEN c_analysis.best_audio_aac = NoneDescriptor
            ELSE LET a == AacVariants[FirstMax(AacVariants, AudioScoreOf)]
                 IN  c_analysis.best_audio_aac =
                        [ format_id |-> a.format_id, acodec |-> a.acodec, abr |-> a.abr,
                          quality_score |-> AudioScoreOf(a) ] )

\* C19 witness: variants 400 and 137 tie at the maximum video score and 400,
\* reported first, is best_video.
C19_Witness ==
    /\ HasAnalysis
    /\ Len(c_formats) >= 2
    /\ c_formats[1].format_id = "400" /\ c_formats[2].format_id = "137"
    /\ c_analysis.best_video.format_id = "400"
    /\ c_analysis.best_video.quality_score = 125

\* C19, audio side: AAC variants 141 and 140 tie at 70 and 141, reported
\* first, is best_audio_aac.
C19_WitnessAudio ==
    /\ HasAnalysis
    /\ Len(c_formats) >= 2
    /\ c_formats[1].format_id = "141" /\ c_formats[2].format_id = "140"
    /\ c_analysis.best_audio_aac.format_id = "141"
    /\ c_analysis.best_audio_aac.quality_score = 70

-----------------------------------------------------------------------------
(***************************************************************************)
(* Claims about sanitize_filename.                                         *)
(***************************************************************************)

\* C17: sanitize_filename is idempotent: sanitizing its own output gives the
\* output back.
C17_SanitizeIsIdempotent ==
    Len(n_out) >= 2 => n_out[2] = n_out[1]

ReservedCharacters ==
    { "<", ">", ":", "\"", "/", "\\", "|", "?", "*" }

\* C18: the output of sanitize_filename contains none of the characters
\* < > : " / \ | ? * and is at most 200 characters long.
C18_OutputIsSafe ==
    \A k \in 1..Len(n_out) :
        /\ \A i \in 1..Len(n_out[k]) : n_out[k][i] \notin ReservedCharacters
        /\ Len(n_out[k]) <= 200

\* C18 witness: a name longer than 200 characters that holds a forbidden
\* character came out 200 characters long with the underscore in its place.
C18_Witness ==
    /\ n_out # << >>
    /\ Len(n_in) > 200
    /\ \E i \in 1..200 : n_in[i] \in ReservedCharacters /\ n_out[1][i] = "_"
    /\ Len(n_out[1]) = 200

-----------------------------------------------------------------------------
(***************************************************************************)
(* Claims about download_video_with_quality_optimized.                     *)
(***************************************************************************)

CallDone == o_pc = "done"

\* C20: without an analysis the fallback chain is run directly and no
\* selected strategy runs; with an analysis the selected strategy is run
\* exactly once, the fallback chain is run if and only if that strategy
\* raised or returned a path that does not exist, and what reaches the
\* caller is never the selected strategy's own failure.
C20_SelectedThenFallback ==
    CallDone
    => ( /\ c_analysis = NoAnalysis
            => (o_chain /\ o_selected.called = 0 /\ o_selected.entered = 0)
         /\ c_analysis # NoAnalysis
            => ( /\ o_selected.called = 1
                 /\ o_selected.entered = 1
                 /\ o_chain <=> o_selected.outcome # "path" )
         /\ ch_pc = "raised" => o_chain )

\* The parts of C20 that do not depend on the selected strategy's body
\* being entered.
C20_ControlFlow ==
    CallDone
    => ( /\ c_analysis = NoAnalysis
            => (o_chain /\ o_selected.called = 0 /\ o_selected.entered = 0)
         /\ c_analysis # NoAnalysis
            => ( /\ o_selected.called = 1
                 /\ o_chain <=> o_selected.outcome # "path" )
         /\ ch_pc = "raised" => o_chain )

\* C21: the analyzer signals 'no analysis available', and the caller goes
\* straight to the fallback chain without selecting a strategy, both when
\* metadata extraction raises and when the collaborator reports an empty
\* list of formats.
C21_NoFormatsIsNoAnalysis ==
    (CallDone /\ (c_extract = "raise" \/ c_formats = << >>))
    => ( /\ c_analysis = NoAnalysis
         /\ c_strategy = NoStrategy
         /\ o_selected.called = 0
         /\ o_chain )

\* The half of C21 about an extraction that raises.
C21_RaiseIsNoAnalysis ==
    (CallDone /\ c_extract = "raise")
    => ( /\ c_analysis = NoAnalysis
         /\ c_strategy = NoStrategy
         /\ o_selected.called = 0
         /\ o_chain )

-----------------------------------------------------------------------------
(***************************************************************************)
(* Further claims about one DownloadWorker.                                *)
(***************************************************************************)

TempMarked == {TempFile, PartFile}

\* C22: a file carrying the temporary marker is never presented as final
\* output: when a video job whose retrieval wrote a file reports
\* finished(True), a file without the '_temp' marker is on disk.
C22_SuccessLeavesUnmarkedFile ==
    (FinishedWith("True") /\ IsVideo(w_format) /\ w_fs # {})
    => (FinalFile \in w_fs \/ OriginalFile \in w_fs)

-----------------------------------------------------------------------------
(***************************************************************************)
(* Further claims about the download queue.                                *)
(***************************************************************************)

\* C23: the output-directory sweep runs exactly once before each worker is
\* started (the k-th sweep is made for the k-th worker's job, after k-1
\* workers were created, and there are as many sweeps as workers) and never
\* while a worker thread is alive.
C23_SweepOncePerStartNeverWhileRunning ==
    /\ Len(q_sweeps) = Len(q_workers)
    /\ \A k \in 1..Len(q_sweeps) :
          /\ q_sweeps[k].item = q_workers[k].item
          /\ q_sweeps[k].created = k - 1
          /\ q_sweeps[k].alive = 0

\* A second job has been swept for and started after the first one ended,
\* and the queue was cleared in between or afterwards.
C23_Witness ==
    /\ Len(q_sweeps) = 2
    /\ q_workers[1].phase = "stopped"
    /\ q_workers[2].phase = "run"
    /\ q_app = "running"

-----------------------------------------------------------------------------
(***************************************************************************)
(* Claims about load_settings.                                             *)
(***************************************************************************)

\* C24: load_settings never raises and returns a mapping containing every
\* default key; unless the file holds a JSON object, the mapping is the
\* hard-coded defaults.
C24_DefaultsInForce ==
    st_pc = "done"
    => ( /\ ~st_result.raised
         /\ DOMAIN DefaultSettings \subseteq DOMAIN st_result.value
         /\ st_file.kind # "object" => st_result.value = DefaultSettings )

\* With a home directory, load_settings returns and no default key is lost.
C24_EveryDefaultKeyPresent ==
    (st_pc = "done" /\ st_home = "found")
    => ( /\ ~st_result.raised
         /\ DOMAIN DefaultSettings \subseteq DOMAIN st_result.value )

-----------------------------------------------------------------------------
(***************************************************************************)
(* Further claims about the rows' stored status.                           *)
(***************************************************************************)

Terminal == {Completed, Failed}

\* C25: the stored status of a row changes only along Pending ->
\* InProgress -> {Completed | Failed}: it is InProgress while the row's
\* worker is running, a Pending row does not become terminal in one step and
\* a terminal row keeps its status.
C25_StatusFollowsLifecycle ==
    /\ [](\A w \in RunningWorkers :
             q_workers[w].item \in ListItems(QState)
             => q_stored[q_workers[w].item] = InProgress)
    /\ [][\A i \in Items :
             /\ q_stored[i] = Pending => q_stored'[i] \notin Terminal
             /\ q_stored[i] \in Terminal => q_stored'[i] = q_stored[i]]_vars

-----------------------------------------------------------------------------
(***************************************************************************)
(* Further claims about the analysis of a catalog.                         *)
(***************************************************************************)

HasCodec(codec) == codec # NoCodec /\ codec # S_none
IdsOf(seq) == [i \in DOMAIN seq |-> seq[i].format_id]
StoredScore(d) == d.quality_score

\* the ids of the elements of seq that score s, in the order of seq
IdsScoring(seq, ScoreOf(_), s) == IdsOf(SelectSeq(seq, LAMBDA x : ScoreOf(x) = s))

NonIncreasing(list) ==
    \A i, j \in 1..Len(list) : i < j => list[i].quality_score >= list[j].quality_score

ScoresOf(seq, ScoreOf(_)) == {ScoreOf(seq[i]) : i \in 1..Len(seq)}

\* list is a stable arrangement of the variants of input: for every score,
\* the descriptors with that score are the variants with that score, in
\* input order.
KeepsInputOrder(list, input, ScoreOf(_)) ==
    \A s \in ScoresOf(list, StoredScore) \cup ScoresOf(input, ScoreOf) :
        IdsScoring(list, StoredScore, s) = IdsScoring(input, ScoreOf, s)

\* C26: in every analysis, video_formats and audio_formats are in
\* non-increasing quality_score order and descriptors with equal scores keep
\* their relative input order.
C26_SortedAndStable ==
    HasAnalysis
    => ( /\ NonIncreasing(c_analysis.video_formats)
         /\ NonIncreasing(c_analysis.audio_formats)
         /\ KeepsInputOrder(c_analysis.video_formats,
                            SelectSeq(c_formats, LAMBDA f : HasCodec(f.vcodec)), VideoScoreOf)
         /\ KeepsInputOrder(c_analysis.audio_formats,
                            SelectSeq(c_formats, LAMBDA f : HasCodec(f.acodec)), AudioScoreOf) )

\* A lower-scoring variant listed first is moved behind two variants that
\* tie, and the two keep their input order.
C26_Witness ==
    /\ HasAnalysis
    /\ IdsOf(c_formats) = << "302", "137", "400" >>
    /\ IdsOf(c_analysis.video_formats) = << "137", "400", "302" >>
    /\ c_analysis.video_formats[1].quality_score = c_analysis.video_formats[2].quality_score

\* The same for audio: of an opus variant and two aac variants, the 192 kbps
\* one, listed last, comes first.
C26_WitnessAudio ==
    /\ HasAnalysis
    /\ IdsOf(c_formats) = << "251", "140", "139" >>
    /\ IdsOf(c_analysis.audio_formats)[1] = "139"

IdSet(seq) == {seq[i].format_id : i \in 1..Len(seq)}

\* C27: a raw variant is in video_formats iff it has a video codec other
\* than 'none' and in audio_formats iff it has an audio codec other than
\* 'none', independently: each list has one descriptor per such variant.
C27_Classification ==
    HasAnalysis
    => ( /\ \A i \in 1..Len(c_formats) :
               /\ c_formats[i].format_id \in IdSet(c_analysis.video_formats)
                     <=> HasCodec(c_formats[i].vcodec)
               /\ c_formats[i].format_id \in IdSet(c_analysis.audio_formats)
                     <=> HasCodec(c_formats[i].acodec)
         /\ Len(c_analysis.video_formats)
               = Cardinality({i \in 1..Len(c_formats) : HasCodec(c_formats[i].vcodec)})
         /\ Len(c_analysis.audio_formats)
               = Cardinality({i \in 1..Len(c_formats) : HasCodec(c_formats[i].acodec)}) )

\* A muxed variant, a storyboard with both codecs 'none' and a variant
\* without codec fields: the first is in both lists, the others in none.
C27_Witness ==
    /\ HasAnalysis
    /\ IdsOf(c_formats) = << "sb0", "18", "mhtml" >>
    /\ IdsOf(c_analysis.video_formats) = << "18" >>
    /\ IdsOf(c_analysis.audio_formats) = << "18" >>

RangeOf(seq) == {seq[i] : i \in 1..Len(seq)}

\* the greatest member of a set of naturals, 0 for the empty set
Greatest(S) == IF S = {} THEN 0 ELSE CHOOSE m \in S : \A n \in S : n <= m

\* C28: in every analysis, has_h264 is true iff some video descriptor's
\* codec contains 'avc1' or, whatever the case, 'h264'; has_aac is true iff
\* some audio descriptor's codec contains 'aac' whatever the case; has_aac is
\* true iff best_audio_aac is present; max_height is the greatest height of
\* the video descriptors, 0 when there are none.
C28_SummaryFlags ==
    HasAnalysis
    => ( /\ c_analysis.has_h264
               <=> \E d \in RangeOf(c_analysis.video_formats) :
                      str_in(S_avc1, d.vcodec) \/ NameContains(S_h264, d.vcodec)
         /\ c_analysis.has_aac
               <=> \E d \in RangeOf(c_analysis.audio_formats) : NameContains(S_aac, d.acodec)
         /\ c_analysis.has_aac <=> c_analysis.best_audio_aac # NoneDescriptor
         /\ c_analysis.max_height
               = Greatest({d.height : d \in RangeOf(c_analysis.video_formats)}) )

\* A 1440p avc1 variant, then an upper-case 'H264' at 720p and an upper-case
\* 'AAC' audio variant: both flags are set, and max_height is the height of
\* the first variant, not of the last.
C28_Witness ==
    /\ HasAnalysis
    /\ IdsOf(c_formats) = << "400", "136", "141" >>
    /\ c_analysis.has_h264 /\ c_analysis.has_aac
    /\ c_analysis.best_audio_aac.format_id = "141"
    /\ c_analysis.max_height = 1440

\* Neither flag is set for a vp9 video and an opus audio variant.
C28_WitnessUnset ==
    /\ HasAnalysis
    /\ IdsOf(c_formats) = << "302", "251" >>
    /\ ~c_analysis.has_h264 /\ ~c_analysis.has_aac
    /\ c_analysis.best_audio_aac = NoneDescriptor
    /\ c_analysis.max_height = 720

-----------------------------------------------------------------------------
(***************************************************************************)
(* Claims about the worker's progress signal.                              *)
(***************************************************************************)

ProgressValues == {w_out[k].pct : k \in {j \in 1..Len(w_out) : w_out[j].sig = "progress"}}

\* C29: every value emitted on the progress signal is an integer in 0..100,
\* whatever byte counts or percent string the retrieval reports.
C29_ProgressInRange == ProgressValues \subseteq 0..100

\* The hook emits 100 for a 'finished' event: while the event is being
\* handled nothing is emitted yet, and once it is handled the last progress
\* value is 100.
C29_FinishedEmitsHundred ==
    [][(w_tick.status = "finished" /\ w_tick' = NoTick /\ w_pc' = "download")
         => \E k \in 1..Len(w_out') :
               /\ k > Len(w_out)
               /\ w_out'[k] = Progress("hook", 100)]_vars

-----------------------------------------------------------------------------
(***************************************************************************)
(* Claims about the returned path.                                         *)
(***************************************************************************)

\* an extension portion: a dot followed by characters other than '.' and '/'
IsExtension(e) ==
    /\ e # << >>
    /\ e[1] = "."
    /\ \A i \in 2..Len(e) : e[i] \notin {".", "/"}

\* to is from with its extension portion replaced by '.mp4', and, when
\* marker is not empty, with the marker that precedes the extension removed
RewritesExtension(from, to, marker) ==
    \E k \in 0..Len(from) :
        /\ IsExtension(SubSeq(from, k + 1, Len(from)))
        /\ str_endswith(to, S_dot_mp4)
        /\ SubSeq(from, 1, k) = SubSeq(to, 1, Len(to) - Len(S_dot_mp4)) \o marker

ReportedOtherExtension == x_pc = "done" /\ ~str_endswith(x_reported, S_dot_mp4)

C30_Witness ==
    /\ x_pc = "done"
    /\ x_fn = "download_adaptive_quality"
    /\ x_reported = << "o", ".", "d", "/", "a", ".", "b", ".", "w", "e", "b", "m" >>
    /\ x_returned = << "o", ".", "d", "/", "a", ".", "b", ".", "m", "p", "4" >>

-----------------------------------------------------------------------------
(***************************************************************************)
(* Claims about the fixer called on an existing file.                      *)
(***************************************************************************)

FixerEnded == f_pc \in {"returned", "raised"}

C31_ContentKeptUnderTempName ==
    (FixerEnded /\ f_temp_file = TempFile)
    => f_fs \cap {FinalFile, OriginalFile, TempFile} # {}

-----------------------------------------------------------------------------
(***************************************************************************)
(* Further claims about tiered selection.                                  *)
(***************************************************************************)

ReadsBestAudioAac == {"download_premium_quality", "download_adaptive_with_aac"}
ReadsBestVideo == {"download_premium_quality", "download_with_conversion"}

\* C32: under tiered selection the selected strategy never needs a
\* descriptor the analysis lacks: a strategy that reads best_audio_aac is
\* selected only when best_audio_aac is present, and one that reads
\* best_video only when best_video is present.
C32_SelectedStrategyHasItsDescriptors ==
    (HasAnalysis /\ Chosen)
    => ( /\ c_strategy.function \in ReadsBestAudioAac
               => c_analysis.best_audio_aac # NoneDescriptor
         /\ c_strategy.function \in ReadsBestVideo
               => c_analysis.best_video # NoneDescriptor )

\* The part about best_audio_aac alone.
C32_AacStrategiesHaveAac ==
    (HasAnalysis /\ Chosen /\ c_strategy.function \in ReadsBestAudioAac)
    => c_analysis.best_audio_aac # NoneDescriptor

-----------------------------------------------------------------------------
(***************************************************************************)
(* Claims about the order of the worker's notifications.                   *)
(***************************************************************************)

Emitted(sig) == {k \in 1..Len(w_out) : w_out[k].sig = sig}
FinishedAs(success) == {k \in Emitted("finished") : w_out[k].text = success}

\* C33: in every run, error_occurred(message) is emitted iff
\* finished(False, message) is emitted, with the same message and before it;
\* finished(True, ...) is never preceded by error_occurred; and no status or
\* progress notification follows the finished notification.
C33_NotificationProtocol ==
    w_pc = "stopped"
    => ( /\ \A k \in Emitted("error_occurred") :
               \E j \in FinishedAs("False") : k < j /\ w_out[j].msg = w_out[k].text
         /\ \A j \in FinishedAs("False") :
               \E k \in Emitted("error_occurred") : k < j /\ w_out[j].msg = w_out[k].text
         /\ \A j \in FinishedAs("True") : \A k \in Emitted("error_occurred") : ~(k < j)
         /\ \A j \in Emitted("finished") :
               \A k \in Emitted("status") \cup Emitted("progress") : k < j )

\* While the run is under way nothing has followed a finished notification.
C33_NothingAfterFinished ==
    \A j \in Emitted("finished") : j = Len(w_out) /\ w_pc = "stopped"

\* A run that failed in the hook after reporting progress: progress, then
\* error_occurred, then finished(False) with the same message.
C33_Witness ==
    /\ w_pc = "stopped"
    /\ Emitted("progress") # {}
    /\ Emitted("error_occurred") = {Len(w_out) - 1}
    /\ FinishedAs("False") = {Len(w_out)}
    /\ w_out[Len(w_out)].msg = "hook"

\* A run that succeeded after the fixer's status notification.
C33_WitnessSuccess ==
    /\ w_pc = "stopped"
    /\ FinishedAs("True") = {Len(w_out)}
    /\ Emitted("error_occurred") = {}
    /\ w_transcodes > 0

-----------------------------------------------------------------------------
(***************************************************************************)
(* Claims about the agreement of the queue and the workers.                *)
(***************************************************************************)

\* rows that are in progress by their stored status or by their text
RowsInProgress ==
    {i \in ListItems(QState) : q_stored[i] = InProgress \/ q_shown[i] = InProgress}

\* C34: a worker is running iff exactly one row of the queue is in
\* progress.
C34_RunningIffOneInProgress ==
    q_app = "running"
    => (RunningWorkers # {} <=> Cardinality(RowsInProgress) = 1)

\* C34, the case of clear_queue: a running worker's job is in the queue.
C34_RunningWorkerHasItsJob ==
    q_app = "running"
    => \A w \in RunningWorkers : q_workers[w].item \in ListItems(QState)

WorkersOf(i) == {w \in 1..Len(q_workers) : q_workers[w].item = i}

\* C35: at most one worker is ever created for a queue item, and a row
\* stored as Completed or Failed is not started again.
C35_StartedAtMostOnce ==
    /\ [](\A i \in Items : Cardinality(WorkersOf(i)) <= 1)
    /\ [][\A i \in Items :
             q_stored[i] \in Terminal => WorkersOf(i)' = WorkersOf(i)]_vars

\* The second half alone: a terminal row gets no new worker.
C35_TerminalNeverRestarted ==
    [][\A i \in Items : q_stored[i] \in Terminal => WorkersOf(i)' = WorkersOf(i)]_vars

-----------------------------------------------------------------------------
(***************************************************************************)
(* Claims about the download methods that take a format id.                *)
(***************************************************************************)

RetrievalWroteFile == d_env.dl = "file" /\ (d_method = "download_with_format_id" \/ d_env.meta = "ok")

\* C36: a video download method returns a path that exists on disk
\* whenever the retrieval wrote a file, also when the transcoder fails, and
\* raises otherwise.
C36_ReturnedPathExists ==
    d_pc = "done"
    => ( /\ RetrievalWroteFile
            => (d_result.kind = "return" /\ d_result.path \in d_fs)
         /\ ~RetrievalWroteFile => d_result.kind = "raise" )

\* What holds: when the transcoder succeeds on a retrieved file the returned
\* path exists.
C36_ReturnedPathExistsAfterTranscode ==
    (d_pc = "done" /\ RetrievalWroteFile /\ d_env.transcode = "ok")
    => (d_result.kind = "return" /\ d_result.path \in d_fs)

-----------------------------------------------------------------------------
(***************************************************************************)
(* Claims about PlaylistDownloader.run.                                    *)
(***************************************************************************)

AllFinishedCount == Cardinality({k \in 1..Len(p_out) : p_out[k].sig = "all_finished"})

\* The notifications of the entries: everything but all_finished.
EntrySignals == SelectSeq(p_out, LAMBDA s : s.sig # "all_finished")

\* C37: every run of PlaylistDownloader.run ends with exactly one
\* all_finished notification, a cancelled run included, after the
\* per-entry notifications video_finished, progress(i, N) in order.
C37_RunEndsWithOneAllFinished ==
    p_pc = "stopped"
    => /\ AllFinishedCount = 1
       /\ p_out[Len(p_out)].sig = "all_finished"

\* What holds: entries are processed in order; entry i emits video_finished
\* then progress(i, N), i = 1, 2, ...; all_finished is emitted at most once
\* and nothing follows it.
C37_EntriesInOrder ==
    /\ Len(EntrySignals) = 2 * p_i
    /\ \A k \in 1..p_i :
          /\ EntrySignals[2 * k - 1].sig = "video_finished"
          /\ EntrySignals[2 * k - 1].i = k
          /\ EntrySignals[2 * k] = PlaylistProgress(k, Len(p_info.entries))
    /\ AllFinishedCount <= 1
    /\ AllFinishedCount = 1 => (p_pc = "stopped" /\ p_out[Len(p_out)].sig = "all_finished")

\* What holds: a run that is not cancelled ends with exactly one
\* all_finished.
C37_UncancelledRunEndsWithOneAllFinished ==
    (p_pc = "stopped" /\ ~p_cancelled) => AllFinishedCount = 1

\* The download of an entry does not start once cancel() was called: false
\* when cancel() falls between the test at the loop head and the start.
C37_NoEntryStartedAfterCancel ==
    [][(p_cancelled /\ p_pc # "download") => p_pc' # "download"]_vars

-----------------------------------------------------------------------------
(***************************************************************************)
(* best_video and best_audio_aac against the sorted sequences.             *)
(***************************************************************************)

AacDescriptors(list) == SelectSeq(list, LAMBDA d : IsAac(d.acodec))

MaxScore(list) == Greatest({list[i].quality_score : i \in 1..Len(list)})

\* the first element of list that reaches the greatest score of list
FirstMaximum(list) ==
    list[CHOOSE i \in 1..Len(list) :
            /\ list[i].quality_score = MaxScore(list)
            /\ \A j \in 1..(i - 1) : list[j].quality_score # MaxScore(list)]

\* C38: in every analysis with a video descriptor, best_video is the first
\* element of the sorted video_formats; with an AAC descriptor,
\* best_audio_aac is the first AAC descriptor of the sorted audio_formats
\* among those with the greatest AAC score.
C38_BestIsFirstOfSorted ==
    HasAnalysis
    => ( /\ c_analysis.video_formats # << >>
            => c_analysis.best_video = c_analysis.video_formats[1]
         /\ AacDescriptors(c_analysis.audio_formats) # << >>
            => c_analysis.best_audio_aac
                 = FirstMaximum(AacDescriptors(c_analysis.audio_formats)) )

\* Two video variants tie for the greatest score behind a lower-scoring one:
\* the scan kept the first of the two and the sort put it first.
C38_Witness ==
    /\ HasAnalysis
    /\ IdsOf(c_formats) = << "302", "137", "400" >>
    /\ c_analysis.video_formats[1].quality_score = c_analysis.video_formats[2].quality_score
    /\ c_analysis.best_video.format_id = "137"
    /\ c_analysis.best_video = c_analysis.video_formats[1]

\* Two AAC variants tie for the greatest AAC score behind an opus one: the
\* scan kept the first of the two, which the sort put first.
C38_WitnessAudio ==
    /\ HasAnalysis
    /\ IdsOf(c_formats) = << "251", "141", "140" >>
    /\ IdsOf(c_analysis.audio_formats) = << "141", "140", "251" >>
    /\ c_analysis.audio_formats[1].quality_score = c_analysis.audio_formats[2].quality_score
    /\ c_analysis.best_audio_aac.format_id = "141"

=============================================================================
